---- MODULE Spec2Model ----
(***************************************************************************)
(* Snowflake usage dashboards (admin_app, user_app and their pages).       *)
(*                                                                         *)
(* Every script is a Streamlit page: it is run top to bottom on each       *)
(* render, reads a date range from the sidebar, passes a date gate, and    *)
(* then issues its SQL queries one after another through                   *)
(* session.sql(...).to_pandas(), post-processing each result before the    *)
(* next query is sent.                                                     *)
(*                                                                         *)
(* Amounts.  Credits returned by the engine are integers in milli-credits  *)
(* (1 credit = 1000).  Savings are credits times a percentage, kept in     *)
(* units of 1/100 milli-credit, so that credits * 0.3 is credits * 30.     *)
(* SQL NULL reaches pandas as NaN (float64 column); NaN is the value NaN   *)
(* below, it propagates through +, compares false, and is truthy in        *)
(* Python's `x or 0`.  A per-unit ratio rounded to d decimals is an        *)
(* integer in units of 10^-d credit, and a quantile of ratios is kept      *)
(* times 100, which makes the linear interpolation exact.                  *)
(***************************************************************************)
EXTENDS Integers, Sequences, FiniteSets, TLC

\* ------------------------------------------------------------------ bounds
\* calendar days a date input can hold: 1..MaxDate
MaxDate == 2
\* credit sums a cost query can return: 0..MaxCredit (or NULL)
MaxCredit == 1
\* a warehouse's total credits: 500, 1000, ... 500 * MaxCreditSteps milli-credits
MaxCreditSteps == 3
\* distinct users of a warehouse: 1..MaxUsers
MaxUsers == 2
\* warehouses with usage in the period: 0..MaxWarehouses
MaxWarehouses == 2

\* groups (warehouses, users, AI function/model days) in a ratio frame: 0..MaxRows
MaxRows == 3
\* a group's total credits in a ratio frame: 0..MaxUnitCredits milli-credits
MaxUnitCredits == 2
\* days before the first selectable date on which there may be usage
MaxPastDays == 8
\* groups in the one long ratio frame
ManyRows == 61
\* qualifying queries of the period in the efficiency rollup: 0..MaxQueries
MaxQueries == 2
\* the most days a forecast result has
MaxForecastDays == 7

\* ------------------------------------------------- constants of the flagging
WarehouseQuantilePct == 75
UserQuantilePct == 90
AiQuantilePct == 90
WarehouseRatioDigits == 4
UserRatioDigits == 4
AiRatioDigits == 6
\* high_cost_users.head(5), expensive_ai.head(5)
ListLimit == 5

\* ------------------------------------------------- constants of the forecast
ForecastHistoryDays == 90
\* tab 7 shows its figures for more than this many daily rows ...
ForecastMinRows == 7
\* ... from the mean of this many most recent rows
RecentRows == 7
\* the days of a projected month
ProjectionDays == 30
\* pages/07: `if period_days >= 3:` and, inside it, `if len(x_vals) >= 2:`
ProjectionMinDays == 3
PolyfitMinPoints == 2
\* tab 7: `if len(forecast_data) >= 30:`
TabProjectionMinRows == 30
\* pages/07: `if period_days >= 7:`
TrendMinDays == 7
\* pages/07: `trend > 5`, `trend < -5`
TrendPct == 5

\* --------------------------------------------- constants of the savings rules
LowUtilizationUsers == 2
LongExecutionSeconds == 120
MinTotalCredits == 1
LowUtilizationPct == 30
LongExecutionPct == 20
HighCostPct == 15
FailedQueryPct == 50
SpillagePct == 20
LongQueryPct == 10
AiSavingsPct == 10
\* tenths of a subtotal given to each action of the implementation timeline
ConsolidateTenths == 6
AutoSuspendTenths == 4
TrainingTenths == 7
MonitoringTenths == 3

\* ------------------------------------------------------------- null values
NaN == 0 - 1

Add(a, b) == IF a = NaN \/ b = NaN THEN NaN ELSE a + b
Gt(a, b) == a # NaN /\ b # NaN /\ a > b
\* Python `x or 0`: 0 for a falsy x (0, 0.0, None); NaN is truthy and stays
OrZero(x) == IF x = 0 THEN 0 ELSE x

\* ------------------------------------------------------------------ scripts
AdminPages == {"admin_01", "admin_02", "admin_03", "admin_04",
               "admin_05", "admin_06", "admin_07", "admin_08"}
UserPages == {"user_01", "user_02", "user_03", "user_04",
              "user_05", "user_06", "user_07", "user_08"}
Pages == {"admin_app", "user_app"} \cup AdminPages \cup UserPages

\* the session.sql calls of each script, in program order
Script(p) ==
  CASE p = "admin_app" -> << "total_cost", "ai_cost", "daily_cost",
                             "warehouse_analysis", "user_cost",
                             "data_scanning", "large_scan", "ai_summary",
                             "efficiency", "problem_queries", "forecast",
                             "warehouse_savings", "query_savings", "ai_savings" >>
    [] p = "admin_01" -> << "total_cost", "ai_cost", "daily_cost" >>
    [] p = "admin_02" -> << "warehouse_analysis" >>
    [] p = "admin_03" -> << "user_cost" >>
    [] p = "admin_04" -> << "data_scanning", "large_scan" >>
    [] p = "admin_05" -> << "ai_summary" >>
    [] p = "admin_06" -> << "efficiency", "problem_queries" >>
    [] p = "admin_07" -> << "forecast" >>
    [] p = "admin_08" -> << "warehouse_savings", "query_savings", "ai_savings" >>
    [] p = "user_app" -> << "query1", "query2", "query3", "query4_spill",
                            "query4_details", "query5_ai", "query5",
                            "query6", "query8", "query10" >>
    [] p = "user_01" -> << "query1" >>
    [] p = "user_02" -> << "query2", "query3" >>
    [] p = "user_03" -> << "query4_spill" >>
    [] p = "user_04" -> << "query4_details" >>
    [] p = "user_05" -> << "query5_ai" >>
    [] p = "user_06" -> << "query5", "query6" >>
    [] p = "user_07" -> << "query8" >>
    [] p = "user_08" -> << "query10" >>

\* queries that read a Cortex (AI usage) view, which a deployment may lack
CortexQueries == {"ai_cost", "user_cost", "ai_summary", "ai_savings",
                  "query2", "query3", "query5_ai", "query6"}
\* queries issued only inside `if not <previous result>.empty:`
NestedQueries == {"large_scan", "problem_queries"}
\* queries whose result this model post-processes in an action of its own
RollupQueries == {"total_cost", "ai_cost",
                  "warehouse_analysis", "user_cost", "ai_summary", "efficiency",
                  "forecast",
                  "warehouse_savings", "query_savings", "ai_savings"}
\* queries whose frame carries a per-unit ratio that is flagged by percentile
RatioQueries == {"warehouse_analysis", "user_cost", "ai_summary"}

VARIABLES
  cortexAvailable,   \* the deployment has the Cortex usage views
  page,              \* the script being rendered
  pc,                \* "input", "gate", "ready", "wait", "rejected", "done", "aborted"
  start_date, end_date,
  d1len,             \* len(d1) of user_app's range input
  qi,                \* index in Script(page) of the next session.sql call
  issued,            \* the queries sent to the engine in this render, in order
  outstanding,       \* the query the render is blocked on, or "none"
  failedQuery,       \* the query whose exception ended the render, or "none"
  errorShown,        \* st.error("Please select a valid date range ...")
  warned,            \* st.sidebar.warning("AI cost tracking not available ...")
  ai_cost_status,    \* "none", "ok", "failed": how the ai_cost_query ended
  cost_summary, ai_current, current_total, metricsShown, breakdownShown,
  usage,             \* the period's per-warehouse aggregates (warehouse_inefficiency)
  wh_savings, total_wh_savings,
  failed_savings, spillage_savings, long_query_savings,
  ai_savings_amount, total_potential_savings, query_total_savings,
  savingsView,       \* "none", "plan" (breakdown, action plan, timeline), "optimized"
  timeline_data,     \* the rows of the implementation timeline, or << >>
  rendered,          \* what the savings page wrote below its four metrics
  unit_groups,       \* the period's per-group aggregates (credits, unit count)
  frame,             \* warehouse_data / user_data / ai_data, by query
  threshold,         \* the quantile of the frame's ratio column, times 100
  high_cost,         \* high_cost_per_query / high_cost_users / expensive_ai
  listed,            \* the flagged rows an st.warning was written for, by query
  efficiency_summary, \* the row of efficiency_query, or << >>
  rates,             \* failure_rate, spillage_rate, long_query_rate (per cent)
  forecast_data,     \* the rows of forecast_query, or << >>
  forecast_view,     \* what Cost Forecasting drew from forecast_data
  query_usage,       \* the period's credits by query category, and AI credits
  source,            \* the account usage history: credits by START_TIME
  sessions,          \* the script run of each browser session, by session
  query_history,     \* the instants whose queries have a QUERY_HISTORY row
  figures            \* what each tab and each page computed for the date range

renderVars == << page, pc, start_date, end_date, d1len, qi, issued,
                 outstanding, failedQuery, errorShown, warned >>
costVars == << ai_cost_status, cost_summary, ai_current, current_total,
               metricsShown, breakdownShown >>
savingsVars == << wh_savings, total_wh_savings, failed_savings, spillage_savings,
                  long_query_savings, ai_savings_amount, total_potential_savings,
                  query_total_savings, savingsView, timeline_data, rendered >>
ratioVars == << frame, threshold, high_cost, listed, efficiency_summary, rates,
               forecast_data, forecast_view >>
tabVars == << query_history, figures >>
sessionVars == << source, sessions, tabVars >>
vars == << cortexAvailable, usage, unit_groups, query_usage, renderVars, costVars,
          savingsVars, ratioVars, sessionVars >>

Dates == 1..MaxDate
Credits == 0..MaxCredit
NoValue == 0 - 3

\* ---------------------------------------------------- dates and time of day
\* START_TIME is a timestamp.  Two instants of a day are told apart: its
\* midnight, and any later time of that day.  A date d written into the SQL
\* text as '{d}' is compared with a timestamp as the midnight of d.
Midnight(d) == 2 * d
LaterThatDay(d) == 2 * d + 1
DayOf(t) == t \div 2
Stamps == { Midnight(d) : d \in Dates } \cup { LaterThatDay(d) : d \in Dates }

\* Cost Forecasting before forecast_query returned, and over an empty result
NoForecastView ==
  [ metrics |-> << >>, traces |-> {}, trend |-> << >> ]

\* the three rates before they are computed
NoRates ==
  [ failure_rate |-> NoValue, spillage_rate |-> NoValue, long_query_rate |-> NoValue ]

\* A period without any query (and without AI usage): every SUM is NULL.
NoQueryUsage ==
  [ failed_credits |-> NaN, spilled_credits |-> NaN, long_credits |-> NaN,
    total_ai_credits |-> NaN ]

\* the cut-off and the flagged rows of the last render kept for the next
FreshLocalsKeepingThreshold ==
  /\ qi' = 1 /\ issued' = << >> /\ outstanding' = "none" /\ failedQuery' = "none"
  /\ errorShown' = FALSE /\ warned' = FALSE
  /\ ai_cost_status' = "none" /\ cost_summary' = << >> /\ ai_current' = NoValue
  /\ current_total' = NoValue /\ metricsShown' = FALSE /\ breakdownShown' = FALSE
  /\ wh_savings' = << >> /\ total_wh_savings' = NoValue
  /\ failed_savings' = NoValue /\ spillage_savings' = NoValue
  /\ long_query_savings' = NoValue /\ ai_savings_amount' = NoValue
  /\ total_potential_savings' = NoValue /\ query_total_savings' = NoValue
  /\ savingsView' = "none" /\ timeline_data' = << >> /\ rendered' = {}
  /\ frame' = [ q \in RatioQueries |-> << >> ]
  /\ listed' = [ q \in RatioQueries |-> << >> ]
  /\ efficiency_summary' = << >> /\ rates' = NoRates
  /\ forecast_data' = << >> /\ forecast_view' = NoForecastView
  /\ UNCHANGED << threshold, high_cost >>

\* a script starts with no local bound
FreshLocals ==
  /\ qi' = 1 /\ issued' = << >> /\ outstanding' = "none" /\ failedQuery' = "none"
  /\ errorShown' = FALSE /\ warned' = FALSE
  /\ ai_cost_status' = "none" /\ cost_summary' = << >> /\ ai_current' = NoValue
  /\ current_total' = NoValue /\ metricsShown' = FALSE /\ breakdownShown' = FALSE
  /\ wh_savings' = << >> /\ total_wh_savings' = NoValue
  /\ failed_savings' = NoValue /\ spillage_savings' = NoValue
  /\ long_query_savings' = NoValue /\ ai_savings_amount' = NoValue
  /\ total_potential_savings' = NoValue /\ query_total_savings' = NoValue
  /\ savingsView' = "none" /\ timeline_data' = << >> /\ rendered' = {}
  /\ frame' = [ q \in RatioQueries |-> << >> ]
  /\ threshold' = [ q \in RatioQueries |-> NoValue ]
  /\ high_cost' = [ q \in RatioQueries |-> << >> ]
  /\ listed' = [ q \in RatioQueries |-> << >> ]
  /\ efficiency_summary' = << >> /\ rates' = NoRates
  /\ forecast_data' = << >> /\ forecast_view' = NoForecastView

InitRender ==
  /\ page = "admin_app" /\ pc = "input"
  /\ start_date = 1 /\ end_date = 1 /\ d1len = 2
  /\ qi = 1 /\ issued = << >> /\ outstanding = "none" /\ failedQuery = "none"
  /\ errorShown = FALSE /\ warned = FALSE
  /\ ai_cost_status = "none" /\ cost_summary = << >> /\ ai_current = NoValue
  /\ current_total = NoValue /\ metricsShown = FALSE /\ breakdownShown = FALSE
  /\ wh_savings = << >> /\ total_wh_savings = NoValue
  /\ failed_savings = NoValue /\ spillage_savings = NoValue
  /\ long_query_savings = NoValue /\ ai_savings_amount = NoValue
  /\ total_potential_savings = NoValue /\ query_total_savings = NoValue
  /\ savingsView = "none" /\ timeline_data = << >> /\ rendered = {}
  /\ frame = [ q \in RatioQueries |-> << >> ]
  /\ threshold = [ q \in RatioQueries |-> NoValue ]
  /\ high_cost = [ q \in RatioQueries |-> << >> ]
  /\ listed = [ q \in RatioQueries |-> << >> ]
  /\ efficiency_summary = << >> /\ rates = NoRates
  /\ forecast_data = << >> /\ forecast_view = NoForecastView

\* A render: Streamlit runs the script from the top with the widget values.
\* user_app reads one range input d1 (1 or 2 dates); the others two inputs.
StartRender(p, s, e, n) ==
  /\ pc = "input"
  /\ IF p = "user_app" THEN n = 1 => e = s ELSE n = 2
  /\ page' = p /\ start_date' = s /\ end_date' = e /\ d1len' = n
  /\ pc' = "gate"
  /\ FreshLocals
  /\ UNCHANGED << sessionVars, query_usage, cortexAvailable, usage, unit_groups >>

\* The script has ended (last line, rejection or exception); an interaction
\* makes Streamlit run it again, in a namespace of its own.
Rerun ==
  /\ pc \in {"rejected", "done", "aborted"}
  /\ pc' = "input"
  /\ FreshLocals
  /\ UNCHANGED << sessionVars, query_usage, cortexAvailable, usage, unit_groups, page, start_date, end_date, d1len >>

\* the gate with < for <=
DateRangeAcceptedStrict(p, s, e, n) ==
  IF p = "user_app" THEN n > 1 ELSE s < e

\* user_app: `if(len(d1))>1:`; every other script:
\* `if start_date and end_date and start_date <= end_date:` (a date is truthy)
DateRangeAccepted(p, s, e, n) ==
  IF p = "user_app" THEN n > 1 ELSE s <= e

\* the gate of user_app passed whatever d1 holds
DateGateWithoutLengthTest ==
  /\ pc = "gate"
  /\ IF page = "user_app" \/ DateRangeAccepted(page, start_date, end_date, d1len)
       THEN pc' = "ready" /\ UNCHANGED errorShown
       ELSE pc' = "rejected" /\ errorShown' = TRUE
  /\ UNCHANGED << sessionVars, query_usage, cortexAvailable, usage, unit_groups, page, start_date, end_date, d1len, qi, issued,
                  outstanding, failedQuery, warned, costVars, savingsVars, ratioVars >>

\* The gate.  The pages end in `else: st.error(...)`; user_app has no else.
\* In user_app the st.tabs call and every query are inside the `if`.
DateGate ==
  /\ pc = "gate"
  /\ IF DateRangeAccepted(page, start_date, end_date, d1len)
       THEN pc' = "ready" /\ UNCHANGED errorShown
       ELSE IF page = "user_app"
              THEN pc' = "done" /\ UNCHANGED errorShown
              ELSE pc' = "rejected" /\ errorShown' = TRUE
  /\ UNCHANGED << sessionVars, query_usage, cortexAvailable, usage, unit_groups, page, start_date, end_date, d1len, qi, issued,
                  outstanding, failedQuery, warned, costVars, savingsVars, ratioVars >>

\* a script with a statement that deletes usage rows
StatementKindWithDelete(q) == IF q \in {"daily_cost", "query10"} THEN "DELETE" ELSE "SELECT"

\* The kind of statement each query text is: every one is a SELECT, or a
\* WITH ... SELECT.
StatementKind(q) == "SELECT"

\* What the engine does to the account usage when it runs a statement: a
\* SELECT reads; any other statement is taken to empty what it touches.
Executed(q) ==
  IF StatementKind(q) = "SELECT"
    THEN UNCHANGED << usage, unit_groups, query_usage, source >>
    ELSE /\ usage' = << >> /\ unit_groups' = << >>
         /\ query_usage' = NoQueryUsage /\ source' = [ t \in Stamps |-> 0 ]

\* the next query sent without waiting for the one before it
IssueQueryOverlapping ==
  /\ pc \in {"ready", "wait"} /\ qi <= Len(Script(page))
  /\ outstanding' = Script(page)[qi]
  /\ issued' = Append(issued, Script(page)[qi])
  /\ pc' = "wait"
  /\ UNCHANGED << sessionVars, query_usage, cortexAvailable, usage, unit_groups, page, start_date, end_date, d1len, qi,
                  failedQuery, errorShown, warned, costVars, savingsVars, ratioVars >>

\* session.sql(q).to_pandas(): the render blocks on the query
IssueQuery ==
  /\ pc = "ready" /\ qi <= Len(Script(page))
  /\ outstanding' = Script(page)[qi]
  /\ issued' = Append(issued, Script(page)[qi])
  /\ pc' = "wait"
  /\ Executed(Script(page)[qi])
  /\ UNCHANGED << sessions, tabVars, cortexAvailable, page, start_date, end_date, d1len, qi,
                  failedQuery, errorShown, warned, costVars, savingsVars, ratioVars >>

\* a script that starts over from its first query when it reaches its last line
FinishFromTheTop ==
  /\ pc = "ready" /\ qi > Len(Script(page))
  /\ pc' = "ready" /\ qi' = 1 /\ issued' = << >>
  /\ UNCHANGED << sessionVars, query_usage, cortexAvailable, usage, unit_groups, page, start_date, end_date, d1len,
                  outstanding, failedQuery, errorShown, warned, costVars, savingsVars, ratioVars >>

\* the script ran to its last line
Finish ==
  /\ pc = "ready" /\ qi > Len(Script(page))
  /\ pc' = "done"
  /\ UNCHANGED << sessionVars, query_usage, cortexAvailable, usage, unit_groups, page, start_date, end_date, d1len, qi, issued,
                  outstanding, failedQuery, errorShown, warned, costVars, savingsVars, ratioVars >>

\* the engine answers the outstanding query; a query over a Cortex view can
\* only be answered where the view exists
Returns(q) ==
  /\ pc = "wait" /\ outstanding = q
  /\ q \in CortexQueries => cortexAvailable

\* the script runs on to its next session.sql call
Continue(step) ==
  /\ pc' = "ready" /\ qi' = qi + step /\ outstanding' = "none"
  /\ UNCHANGED << sessionVars, query_usage, cortexAvailable, usage, unit_groups, page, start_date, end_date, d1len, issued,
                  failedQuery, errorShown >>

\* current_total = CURRENT_COMPUTE + CURRENT_CLOUD_SERVICES + ai_current
CurrentTotal(cs, ai) ==
  Add(Add(cs[1].CURRENT_COMPUTE, cs[1].CURRENT_CLOUD_SERVICES), ai)

\* cost_summary = session.sql(total_cost_query).to_pandas()
\* One row of two sums; over rows the cloud-services sum is COALESCEd.
CostSummaries ==
  { << >> } \cup
  { << [CURRENT_COMPUTE |-> c, CURRENT_CLOUD_SERVICES |-> s] >> :
      c \in Credits \cup {NaN}, s \in Credits } \cup
  { << [CURRENT_COMPUTE |-> NaN, CURRENT_CLOUD_SERVICES |-> NaN] >> }

ReturnTotalCost(cs) ==
  /\ Returns("total_cost")
  /\ cost_summary' = cs
  /\ Continue(1)
  /\ UNCHANGED << warned, ai_cost_status, ai_current, current_total,
                  metricsShown, breakdownShown, savingsVars, ratioVars >>

\* what the script does after the try/except around ai_cost_query, up to the
\* daily_cost_query: the total and the four metrics
CostMetrics(ai) ==
  IF cost_summary # << >>
    THEN current_total' = CurrentTotal(cost_summary, ai) /\ metricsShown' = TRUE
    ELSE UNCHANGED << current_total, metricsShown >>

\* ai_cost_result: one row, COALESCE(SUM(TOKEN_CREDITS), 0)
AiCostResults == { << >> } \cup { << [CURRENT_AI |-> a] >> : a \in Credits }

\* the warning issued after the try block instead of in its except
ReturnAiCostWarns(r) ==
  /\ Returns("ai_cost")
  /\ ai_cost_status' = "ok"
  /\ warned' = TRUE
  /\ ai_current' = IF r = << >> THEN 0 ELSE OrZero(r[1].CURRENT_AI)
  /\ CostMetrics(ai_current')
  /\ Continue(1)
  /\ UNCHANGED << cost_summary, breakdownShown, savingsVars, ratioVars >>

\* try: ai_cost_result = ...; if not ai_cost_result.empty: ai_current = ... or 0
ReturnAiCost(r) ==
  /\ Returns("ai_cost")
  /\ ai_cost_status' = "ok"
  /\ ai_current' = IF r = << >> THEN 0 ELSE OrZero(r[1].CURRENT_AI)
  /\ CostMetrics(ai_current')
  /\ Continue(1)
  /\ UNCHANGED << warned, cost_summary, breakdownShown, savingsVars, ratioVars >>

\* the ai_cost_query issued outside any try
FailAiCostUnguarded ==
  /\ pc = "wait" /\ outstanding = "ai_cost"
  /\ ai_cost_status' = "failed"
  /\ pc' = "aborted" /\ failedQuery' = "ai_cost" /\ outstanding' = "none"
  /\ UNCHANGED << sessionVars, query_usage, cortexAvailable, usage, unit_groups, page, start_date, end_date, d1len, qi, issued,
                  errorShown, warned, cost_summary, ai_current, current_total,
                  metricsShown, breakdownShown, savingsVars, ratioVars >>

\* except Exception: st.sidebar.warning(...); ai_current = 0
FailAiCost ==
  /\ pc = "wait" /\ outstanding = "ai_cost"
  /\ ai_cost_status' = "failed"
  /\ warned' = TRUE
  /\ ai_current' = 0
  /\ CostMetrics(0)
  /\ Continue(1)
  /\ UNCHANGED << cost_summary, breakdownShown, savingsVars, ratioVars >>

\* daily_costs returns; the trend chart, then the cost breakdown pie
ReturnDailyCost(empty) ==
  /\ Returns("daily_cost")
  /\ breakdownShown' = (cost_summary # << >>)
  /\ Continue(1)
  /\ UNCHANGED << warned, ai_cost_status, cost_summary, ai_current,
                  current_total, metricsShown, savingsVars, ratioVars >>

\* any other query returns rows (or none); a nested query is skipped when the
\* result it hangs under is empty
ReturnRows(empty) ==
  /\ pc = "wait" /\ outstanding \notin RollupQueries \cup {"daily_cost"}
  /\ Returns(outstanding)
  /\ LET nested == qi < Len(Script(page)) /\ Script(page)[qi + 1] \in NestedQueries
     IN  Continue(IF empty /\ nested THEN 2 ELSE 1)
  /\ UNCHANGED << warned, costVars, savingsVars, ratioVars >>

\* A finished render is followed by one over other usage: the date inputs
\* were changed, or the account has run more queries since.
RerunOnNewUsage(groups) ==
  /\ pc = "done" /\ groups # unit_groups
  /\ pc' = "input" /\ unit_groups' = groups
  /\ FreshLocals
  /\ UNCHANGED << sessionVars, query_usage, cortexAvailable, usage, page, start_date, end_date, d1len >>

\* the exception swallowed and the script run on to its next query
FailQuerySwallowed ==
  /\ pc = "wait" /\ outstanding # "ai_cost"
  /\ pc' = "ready" /\ qi' = qi + 1 /\ failedQuery' = outstanding /\ outstanding' = "none"
  /\ UNCHANGED << sessionVars, query_usage, cortexAvailable, usage, unit_groups, page, start_date, end_date, d1len, issued,
                  errorShown, warned, costVars, savingsVars, ratioVars >>

\* a query raises outside any try: the exception ends the script
FailQuery ==
  /\ pc = "wait" /\ outstanding # "ai_cost"
  /\ pc' = "aborted" /\ failedQuery' = outstanding /\ outstanding' = "none"
  /\ UNCHANGED << sessionVars, query_usage, cortexAvailable, usage, unit_groups, page, start_date, end_date, d1len, qi, issued,
                  errorShown, warned, costVars, savingsVars, ratioVars >>

\* ------------------------------------------------------- savings (tab8, page 08)
\* One row of the warehouse_inefficiency CTE.  avg_execution_ms is
\* AVG(EXECUTION_TIME), so avg_execution_seconds is avg_execution_ms / 1000.
WarehouseGroups ==
  [ total_credits : { 500 * k : k \in 1..MaxCreditSteps },
    total_queries : {1, 150, 200},
    avg_execution_ms : {LongExecutionSeconds * 1000, LongExecutionSeconds * 1000 + 1},
    unique_users : 1..MaxUsers ]

\* the cost-per-query rule with >= for >
HighCostPerQueryInclusive(g) ==
  g.total_queries # 0 /\ g.total_credits * 100 >= g.total_queries * 1000

\* (total_credits / NULLIF(total_queries, 0)) > 0.01; NULL > 0.01 is not true
HighCostPerQuery(g) ==
  g.total_queries # 0 /\ g.total_credits * 100 > g.total_queries * 1000

\* the rules applied independently and summed instead of first match
PotentialSavingsSummed(g) ==
  (IF g.unique_users < LowUtilizationUsers THEN g.total_credits * LowUtilizationPct ELSE 0)
  + (IF Gt(g.avg_execution_ms, LongExecutionSeconds * 1000)
       THEN g.total_credits * LongExecutionPct ELSE 0)
  + (IF g.total_queries # 0 /\ g.total_credits * 100 > g.total_queries * 1000
       THEN g.total_credits * HighCostPct ELSE 0)

\* CASE ... END as potential_savings: the first WHEN that is true
PotentialSavings(g) ==
  CASE g.unique_users < LowUtilizationUsers -> g.total_credits * LowUtilizationPct
    [] g.unique_users >= LowUtilizationUsers
       /\ Gt(g.avg_execution_ms, LongExecutionSeconds * 1000)
         -> g.total_credits * LongExecutionPct
    [] OTHER -> IF HighCostPerQuery(g) THEN g.total_credits * HighCostPct ELSE 0

\* the label chosen with the execution-time rule tried first
RecommendationLongFirst(g) ==
  IF Gt(g.avg_execution_ms, LongExecutionSeconds * 1000)
    THEN "Long execution times - consider optimization"
  ELSE IF g.unique_users < LowUtilizationUsers THEN "Low utilization - consider consolidation"
  ELSE IF HighCostPerQuery(g) THEN "High cost per query - review sizing"
  ELSE "No issues identified"

\* CASE ... END as recommendation
Recommendation(g) ==
  IF g.unique_users < LowUtilizationUsers THEN "Low utilization - consider consolidation"
  ELSE IF Gt(g.avg_execution_ms, LongExecutionSeconds * 1000)
         THEN "Long execution times - consider optimization"
  ELSE IF HighCostPerQuery(g) THEN "High cost per query - review sizing"
  ELSE "No issues identified"

\* the filter with >= for >
PassesCreditFilterInclusive(g) ==
  g.total_credits # NaN /\ g.total_credits >= MinTotalCredits * 1000

\* FROM warehouse_inefficiency WHERE total_credits > 1
PassesCreditFilter(g) == Gt(g.total_credits, MinTotalCredits * 1000)

SavingsRow(name, g) ==
  [ WAREHOUSE_NAME |-> name, TOTAL_CREDITS |-> g.total_credits,
    POTENTIAL_SAVINGS |-> PotentialSavings(g), RECOMMENDATION |-> Recommendation(g) ]

\* ORDER BY potential_savings DESC (rows of equal savings keep their order)
RECURSIVE OrderBySavingsDesc(_)
OrderBySavingsDesc(rows) ==
  IF rows = << >> THEN << >>
  ELSE LET top == CHOOSE i \in 1..Len(rows) :
                    /\ \A j \in 1..Len(rows) :
                         rows[j].POTENTIAL_SAVINGS <= rows[i].POTENTIAL_SAVINGS
                    /\ \A j \in 1..(i - 1) :
                         rows[j].POTENTIAL_SAVINGS < rows[i].POTENTIAL_SAVINGS
           rest == [ k \in 1..(Len(rows) - 1) |-> IF k < top THEN rows[k] ELSE rows[k + 1] ]
       IN  << rows[top] >> \o OrderBySavingsDesc(rest)

\* the rows of warehouse_savings_query over the CTE rows `groups`
RECURSIVE FilteredRows(_, _)
FilteredRows(groups, i) ==
  IF i > Len(groups) THEN << >>
  ELSE (IF PassesCreditFilter(groups[i]) THEN << SavingsRow(i, groups[i]) >> ELSE << >>)
       \o FilteredRows(groups, i + 1)

WarehouseSavingsQuery(groups) == OrderBySavingsDesc(FilteredRows(groups, 1))

\* wh_savings['POTENTIAL_SAVINGS'].sum() (pandas skips NaN)
RECURSIVE SumPotentialSavings(_)
SumPotentialSavings(rows) ==
  IF rows = << >> THEN 0
  ELSE (IF Head(rows).POTENTIAL_SAVINGS = NaN THEN 0 ELSE Head(rows).POTENTIAL_SAVINGS)
       + SumPotentialSavings(Tail(rows))

\* total_wh_savings = ....sum() if not wh_savings.empty else 0
TotalWhSavings(rows) == IF rows # << >> THEN SumPotentialSavings(rows) ELSE 0

ReturnWarehouseSavings ==
  /\ Returns("warehouse_savings")
  /\ wh_savings' = WarehouseSavingsQuery(usage)
  /\ total_wh_savings' = TotalWhSavings(wh_savings')
  /\ Continue(1)
  /\ UNCHANGED << warned, costVars, failed_savings, spillage_savings,
                  long_query_savings, ai_savings_amount, total_potential_savings,
                  query_total_savings, savingsView, timeline_data, rendered, ratioVars >>

\* failed queries estimated at the 0.3 of the largest warehouse rule
QuerySavingsQueryCapped(failed_credits, spilled_credits, long_credits) ==
  << [ FAILED_QUERY_WASTE |-> failed_credits * LowUtilizationPct,
       SPILLAGE_WASTE |-> spilled_credits * SpillagePct,
       LONG_QUERY_WASTE |-> long_credits * LongQueryPct ] >>

\* query_savings_query: three SUM(CASE ... THEN credits * f ELSE 0 END) over the
\* period's queries; NULL when the period has no query
QuerySavingsQuery(failed_credits, spilled_credits, long_credits) ==
  << [ FAILED_QUERY_WASTE |-> failed_credits * FailedQueryPct,
       SPILLAGE_WASTE |-> spilled_credits * SpillagePct,
       LONG_QUERY_WASTE |-> long_credits * LongQueryPct ] >>

QuerySavingsResults ==
  { << >>,
    << [ FAILED_QUERY_WASTE |-> NaN, SPILLAGE_WASTE |-> NaN, LONG_QUERY_WASTE |-> NaN ] >> }
  \cup { QuerySavingsQuery(f, s, s) : f \in {0, 1000}, s \in {0, 1000} }

ReturnQuerySavings(r) ==
  /\ Returns("query_savings")
  /\ IF r # << >>
       THEN /\ failed_savings' = OrZero(r[1].FAILED_QUERY_WASTE)
            /\ spillage_savings' = OrZero(r[1].SPILLAGE_WASTE)
            /\ long_query_savings' = OrZero(r[1].LONG_QUERY_WASTE)
       ELSE failed_savings' = 0 /\ spillage_savings' = 0 /\ long_query_savings' = 0
  /\ Continue(1)
  /\ UNCHANGED << warned, costVars, wh_savings, total_wh_savings, ai_savings_amount,
                  total_potential_savings, query_total_savings, savingsView, timeline_data, rendered, ratioVars >>

\* ai_savings_query: total_ai_credits * 0.1 over SUM(TOKEN_CREDITS), NULL when
\* the period has no Cortex usage
AiSavingsQuery(total_ai_credits) ==
  << [ TOTAL_AI_CREDITS |-> total_ai_credits,
       POTENTIAL_AI_SAVINGS |-> IF total_ai_credits = NaN THEN NaN
                                ELSE total_ai_credits * AiSavingsPct ] >>

AiSavingsResults ==
  { << >> } \cup { AiSavingsQuery(c) : c \in {NaN} \cup { 1000 * k : k \in Credits } }

\* The credits of the period's failed, spilling and long-running queries,
\* and of its AI usage (NULL for a period without AI usage).
QueryUsages ==
  { NoQueryUsage } \cup
  [ failed_credits : {0, 1000}, spilled_credits : {0, 1000}, long_credits : {0, 2000},
    total_ai_credits : {NaN, 3000} ]

\* the row query_savings_query returns over usage u
QuerySavingsFor(u) ==
  IF u.failed_credits = NaN
    THEN << [ FAILED_QUERY_WASTE |-> NaN, SPILLAGE_WASTE |-> NaN, LONG_QUERY_WASTE |-> NaN ] >>
    ELSE QuerySavingsQuery(u.failed_credits, u.spilled_credits, u.long_credits)

\* the timeline with the whole query subtotal given to both query actions
TimelineDataOverlapping(wh, query, ai) ==
  << [ Priority |-> "High", Action |-> "Consolidate underutilized warehouses",
       Estimated_Savings |-> wh * ConsolidateTenths ],
     [ Priority |-> "High", Action |-> "Implement auto-suspend policies",
       Estimated_Savings |-> wh * AutoSuspendTenths ],
     [ Priority |-> "Medium", Action |-> "Query optimization training",
       Estimated_Savings |-> query * 10 ],
     [ Priority |-> "Medium", Action |-> "AI usage governance",
       Estimated_Savings |-> ai * 10 ],
     [ Priority |-> "Low", Action |-> "Advanced query monitoring",
       Estimated_Savings |-> query * 10 ] >>

\* timeline_data = pd.DataFrame({...}); Estimated Savings in tenths of the
\* unit of the subtotals
TimelineData(wh, query, ai) ==
  << [ Priority |-> "High", Action |-> "Consolidate underutilized warehouses",
       Estimated_Savings |-> wh * ConsolidateTenths ],
     [ Priority |-> "High", Action |-> "Implement auto-suspend policies",
       Estimated_Savings |-> wh * AutoSuspendTenths ],
     [ Priority |-> "Medium", Action |-> "Query optimization training",
       Estimated_Savings |-> query * TrainingTenths ],
     [ Priority |-> "Medium", Action |-> "AI usage governance",
       Estimated_Savings |-> ai * 10 ],
     [ Priority |-> "Low", Action |-> "Advanced query monitoring",
       Estimated_Savings |-> query * MonitoringTenths ] >>

\* every section of the action plan written whatever its subtotal
SavingsPageAllSections(total, wh, query, ai) ==
  IF Gt(total, 0)
    THEN {"breakdown", "action_plan", "warehouse_section", "query_section",
          "ai_section", "timeline"}
    ELSE {"success", "checklist"}

\* `if total_potential_savings > 0:` the pie chart, the action plan with a
\* section for each subtotal > 0, the timeline; `else:` st.success and the
\* best-practices checklist
SavingsPage(total, wh, query, ai) ==
  IF Gt(total, 0)
    THEN {"breakdown", "action_plan", "timeline"}
         \cup (IF Gt(wh, 0) THEN {"warehouse_section"} ELSE {})
         \cup (IF Gt(query, 0) THEN {"query_section"} ELSE {})
         \cup (IF Gt(ai, 0) THEN {"ai_section"} ELSE {})
    ELSE {"success", "checklist"}

\* ai_savings_data returns; the total, the four metrics, and the branch on
\* total_potential_savings > 0
ReturnAiSavings(r) ==
  /\ Returns("ai_savings")
  /\ ai_savings_amount' = IF r # << >> THEN r[1].POTENTIAL_AI_SAVINGS ELSE 0
  /\ total_potential_savings' =
       Add(Add(Add(Add(total_wh_savings, failed_savings), spillage_savings),
               long_query_savings), ai_savings_amount')
  /\ query_total_savings' = Add(Add(failed_savings, spillage_savings), long_query_savings)
  /\ savingsView' = IF Gt(total_potential_savings', 0) THEN "plan" ELSE "optimized"
  /\ rendered' = SavingsPage(total_potential_savings', total_wh_savings,
                             query_total_savings', ai_savings_amount')
  /\ timeline_data' = IF Gt(total_potential_savings', 0)
                        THEN TimelineData(total_wh_savings, query_total_savings',
                                          ai_savings_amount')
                        ELSE << >>
  /\ Continue(1)
  /\ UNCHANGED << warned, costVars, wh_savings, total_wh_savings, failed_savings,
                  spillage_savings, long_query_savings, ratioVars >>

\* usage a render can meet: no warehouse, one under-used, one more below a credit
RenderUsage ==
  LET lone == [ total_credits |-> 1500, total_queries |-> 1,
                avg_execution_ms |-> LongExecutionSeconds * 1000 + 1, unique_users |-> 1 ]
      small == [ total_credits |-> 500, total_queries |-> 150,
                 avg_execution_ms |-> LongExecutionSeconds * 1000, unique_users |-> 2 ]
  IN  { << >>, << lone >>, << small, lone >> }

\* ------------------------------------- ratios and flagging (tabs 2, 3 and 5)
\* One row of warehouse_summary / user_costs / ai_summary: the group's credits
\* (milli-credits) and the count its ratio divides by.
UnitGroups == [ total_credits : 0..MaxUnitCredits, unit_count : {0, 1, 3} ]

\* ten groups whose ratios are 1, 2, ..., 10 credits per unit
Decile == [ i \in 1..10 |-> [ total_credits |-> 1000 * i, unit_count |-> 1 ] ]

\* a long frame: ManyRows groups whose ratios are 1, 2, ... milli-credits per
\* unit
ManyGroups == [ i \in 1..ManyRows |-> [ total_credits |-> i, unit_count |-> 1 ] ]

RECURSIVE Pow10(_)
Pow10(d) == IF d = 0 THEN 1 ELSE 10 * Pow10(d - 1)

\* the quotient cut off after the last digit instead of rounded
CreditsPerUnitTruncated(total_credits, unit_count, digits) ==
  IF unit_count = 0 THEN NaN
  ELSE (total_credits * Pow10(digits - 3)) \div unit_count

\* ROUND(total_credits / NULLIF(unit_count, 0), digits), in units of
\* 10^-digits credit.  NULLIF gives NULL for a count of 0 and the quotient and
\* its ROUND are NULL with it; ROUND rounds half away from zero.
CreditsPerUnit(total_credits, unit_count, digits) ==
  IF unit_count = 0 THEN NaN
  ELSE (2 * total_credits * Pow10(digits - 3) + unit_count) \div (2 * unit_count)

RatioDigits(q) ==
  CASE q = "warehouse_analysis" -> WarehouseRatioDigits
    [] q = "user_cost" -> UserRatioDigits
    [] q = "ai_summary" -> AiRatioDigits

QuantilePct(q) ==
  CASE q = "warehouse_analysis" -> WarehouseQuantilePct
    [] q = "user_cost" -> UserQuantilePct
    [] q = "ai_summary" -> AiQuantilePct

\* ORDER BY total_credits DESC (rows of equal credits keep their order)
RECURSIVE OrderByCreditsDesc(_)
OrderByCreditsDesc(rows) ==
  IF rows = << >> THEN << >>
  ELSE LET top == CHOOSE i \in 1..Len(rows) :
                    /\ \A j \in 1..Len(rows) : rows[j].total_credits <= rows[i].total_credits
                    /\ \A j \in 1..(i - 1) : rows[j].total_credits < rows[i].total_credits
           rest == [ k \in 1..(Len(rows) - 1) |-> IF k < top THEN rows[k] ELSE rows[k + 1] ]
       IN  << rows[top] >> \o OrderByCreditsDesc(rest)

\* the final SELECT of the three queries over the rows `groups`
RatioFrame(q, groups) ==
  OrderByCreditsDesc(
    [ i \in 1..Len(groups) |->
        [ name |-> i, total_credits |-> groups[i].total_credits,
          unit_count |-> groups[i].unit_count,
          ratio |-> CreditsPerUnit(groups[i].total_credits, groups[i].unit_count,
                                   RatioDigits(q)) ] ])

\* Series.quantile leaves the NaN of the column out
RECURSIVE DropNa(_)
DropNa(df) ==
  IF df = << >> THEN << >>
  ELSE (IF Head(df).ratio = NaN THEN << >> ELSE << Head(df).ratio >>) \o DropNa(Tail(df))

RECURSIVE SortAscending(_)
SortAscending(values) ==
  IF values = << >> THEN << >>
  ELSE LET low == CHOOSE i \in 1..Len(values) : \A j \in 1..Len(values) : values[i] <= values[j]
           rest == [ k \in 1..(Len(values) - 1) |-> IF k < low THEN values[k] ELSE values[k + 1] ]
       IN  << values[low] >> \o SortAscending(rest)

\* the quantile taken at the lower neighbour, without interpolation
QuantileLower(df, pct) ==
  LET sorted == SortAscending(DropNa(df))
      n == Len(sorted)
  IN  IF n = 0 THEN NaN ELSE sorted[((n - 1) * pct) \div 100 + 1] * 100

\* df[column].quantile(pct / 100), times 100: pandas' default interpolation is
\* linear, at position (n - 1) * q of the sorted values; NaN for no values
Quantile(df, pct) ==
  LET sorted == SortAscending(DropNa(df))
      n == Len(sorted)
      lower == ((n - 1) * pct) \div 100 + 1
      fraction == ((n - 1) * pct) % 100
  IN  IF n = 0 THEN NaN
      ELSE IF fraction = 0 THEN sorted[lower] * 100
      ELSE sorted[lower] * 100 + fraction * (sorted[lower + 1] - sorted[lower])

\* the rows at or above the cut-off
AboveQuantileInclusive(df, cutoff) ==
  SelectSeq(df, LAMBDA row : row.ratio # NaN /\ cutoff # NaN /\ row.ratio * 100 >= cutoff)

\* df[df[column] > cutoff]: a comparison with NaN on either side is False
AboveQuantile(df, cutoff) ==
  SelectSeq(df, LAMBDA row : row.ratio # NaN /\ cutoff # NaN /\ row.ratio * 100 > cutoff)

\* df.head(n)
HeadRows(df, n) == IF Len(df) <= n THEN df ELSE SubSeq(df, 1, n)

\* every flagged row written out, for each of the three frames
WarnedRowsUnlimited(q, flagged) == flagged

\* `for _, wh in high_cost_per_query.iterrows():` for the warehouses,
\* `for _, user in high_cost_users.head(5).iterrows():` for the users and
\* `for _, op in expensive_ai.head(5).iterrows():` for the AI groups
WarnedRows(q, flagged) ==
  IF q = "warehouse_analysis" THEN flagged ELSE HeadRows(flagged, ListLimit)

\* the frame returns; `if not df.empty:` the cut-off, the flagged rows and
\* the warnings written for them
ReturnRatioFrame(q) ==
  /\ Returns(q)
  /\ LET df == RatioFrame(q, unit_groups)
     IN  /\ frame' = [ frame EXCEPT ![q] = df ]
         /\ IF df # << >>
              THEN /\ threshold' = [ threshold EXCEPT ![q] = Quantile(df, QuantilePct(q)) ]
                   /\ high_cost' = [ high_cost EXCEPT ![q] = AboveQuantile(df, threshold'[q]) ]
                   /\ listed' = [ listed EXCEPT ![q] = WarnedRows(q, high_cost'[q]) ]
              ELSE UNCHANGED << threshold, high_cost, listed >>
  /\ Continue(1)
  /\ UNCHANGED << warned, costVars, savingsVars, efficiency_summary, rates,
                  forecast_data, forecast_view >>

\* warehouse_data, high_cost_per_query
ReturnWarehouseAnalysis == ReturnRatioFrame("warehouse_analysis")
\* user_data, high_cost_users
ReturnUserCost == ReturnRatioFrame("user_cost")
\* ai_data, expensive_ai
ReturnAiSummary == ReturnRatioFrame("ai_summary")

\* ------------------------------------------ query efficiency (tab 6, page 06)
\* The one row of efficiency_query: COUNT(*) and three SUM(CASE ...) over the
\* qualifying queries.  Over no query the count is 0 and every SUM is NULL.
EfficiencySummaries ==
  { [ TOTAL_QUERIES |-> 0, FAILED_QUERIES |-> NaN, QUERIES_WITH_SPILLAGE |-> NaN,
      LONG_RUNNING_QUERIES |-> NaN ] }
  \cup { r \in [ TOTAL_QUERIES : 1..MaxQueries, FAILED_QUERIES : 0..MaxQueries,
                 QUERIES_WITH_SPILLAGE : 0..MaxQueries,
                 LONG_RUNNING_QUERIES : 0..MaxQueries ] :
           /\ r.FAILED_QUERIES <= r.TOTAL_QUERIES
           /\ r.QUERIES_WITH_SPILLAGE <= r.TOTAL_QUERIES
           /\ r.LONG_RUNNING_QUERIES <= r.TOTAL_QUERIES }

\* (row[count] / row['TOTAL_QUERIES']) * 100 on the float64 values of the
\* row, in hundredths of a per cent: a NaN count gives NaN, 0 / 0 gives NaN
\* and a positive count over 0 gives inf (no exception is raised)
Inf == 0 - 2

Rate(count, total_queries) ==
  IF count = NaN THEN NaN
  ELSE IF total_queries = 0 THEN (IF count = 0 THEN NaN ELSE Inf)
  ELSE (count * 10000) \div total_queries

\* efficiency_summary returns; `if not efficiency_summary.empty:` the three
\* rates are computed and shown, and the script goes on to problem_queries
ReturnEfficiency(row) ==
  /\ Returns("efficiency")
  /\ efficiency_summary' = << row >>
  /\ rates' = [ failure_rate |-> Rate(row.FAILED_QUERIES, row.TOTAL_QUERIES),
                spillage_rate |-> Rate(row.QUERIES_WITH_SPILLAGE, row.TOTAL_QUERIES),
                long_query_rate |-> Rate(row.LONG_RUNNING_QUERIES, row.TOTAL_QUERIES) ]
  /\ Continue(1)
  /\ UNCHANGED << warned, costVars, savingsVars, frame, threshold, high_cost, listed,
                  forecast_data, forecast_view >>

\* queries that filter on usage_date = DATE_TRUNC('day', start_time)::DATE
DateColumnQueries == {"query1", "query2"}

\* the forecast window reaching back to the start date only
QueryWindowFromStart(p, q, s, e) ==
  [ from |-> Midnight(s),
    to |-> IF q \in DateColumnQueries THEN LaterThatDay(e) ELSE Midnight(e) ]

\* The instants [from, to] whose rows the WHERE clause of query q of script p
\* keeps, for start date s and end date e.  The forecast_query of admin_app
\* starts at start_date - timedelta(days=90); the one of pages/07 does not.
QueryWindow(p, q, s, e) ==
  [ from |-> IF p = "admin_app" /\ q = "forecast"
               THEN Midnight(s - ForecastHistoryDays) ELSE Midnight(s),
    to |-> IF q \in DateColumnQueries THEN LaterThatDay(e) ELSE Midnight(e) ]

InWindow(t, w) == w.from <= t /\ t <= w.to

\* ------------------------------------------- sessions (pages/01, Cost Overview)
\* the credits of the queries started at each instant; 0 for no query
Sources == [ Stamps -> {0, MaxCredit} ]

RECURSIVE SumCredits(_, _)
SumCredits(src, ts) ==
  IF ts = {} THEN 0
  ELSE LET t == CHOOSE x \in ts : TRUE IN src[t] + SumCredits(src, ts \ {t})

\* the AI sum returned as it is, NULL over no usage
AiCostQueryWithoutCoalesce(total_ai_credits) == << [ CURRENT_AI |-> total_ai_credits ] >>

\* ai_cost_query over the period's AI usage: COALESCE(SUM(cf.TOKEN_CREDITS), 0)
AiCostQuery(total_ai_credits) ==
  << [ CURRENT_AI |-> IF total_ai_credits = NaN THEN 0 ELSE total_ai_credits ] >>

\* the rows of the history that fall in window w
RowsIn(src, w) == { t \in DOMAIN src : src[t] > 0 /\ InWindow(t, w) }

\* total_cost_query: one row; SUM over no rows is NULL
TotalCostQuery(src, w) ==
  IF RowsIn(src, w) = {}
    THEN << [CURRENT_COMPUTE |-> NaN, CURRENT_CLOUD_SERVICES |-> NaN] >>
    ELSE << [CURRENT_COMPUTE |-> SumCredits(src, RowsIn(src, w)),
             CURRENT_CLOUD_SERVICES |-> 0] >>

\* daily_cost_query: GROUP BY DATE_TRUNC('day', START_TIME), ORDER BY 1
RECURSIVE DailyCostQuery(_, _, _)
DailyCostQuery(src, w, d) ==
  IF d > MaxDate THEN << >>
  ELSE LET rows == { t \in RowsIn(src, w) : DayOf(t) = d }
       IN  (IF rows = {} THEN << >>
            ELSE << [usage_date |-> d, compute_credits |-> SumCredits(src, rows)] >>)
           \o DailyCostQuery(src, w, d + 1)

Sessions == {1, 2}

\* a session whose script is not running
IdleSession ==
  [ pc |-> "input", widget_start |-> 1, widget_end |-> 1,
    start_date |-> 1, end_date |-> 1, qi |-> 1, errorShown |-> FALSE,
    cost_summary |-> << >>, current_total |-> NoValue, daily_costs |-> << >> ]

\* the script of session s takes a step; nothing else of the state moves
SessionStep(s, next) ==
  /\ sessions' = [ sessions EXCEPT ![s] = next ]
  /\ UNCHANGED << source, tabVars, query_usage, cortexAvailable, usage, unit_groups, renderVars,
                  costVars, savingsVars, ratioVars >>

\* the date inputs bound in one namespace that every session's run shares
SessionStartShared(s, sd, ed) ==
  /\ sessions[s].pc \in {"input", "rejected", "done"}
  /\ sessions' = [ x \in Sessions |->
                     IF x = s
                       THEN [ IdleSession EXCEPT !.pc = "gate",
                                !.widget_start = sd, !.widget_end = ed,
                                !.start_date = sd, !.end_date = ed ]
                       ELSE [ sessions[x] EXCEPT !.start_date = sd, !.end_date = ed ] ]
  /\ UNCHANGED << source, tabVars, query_usage, cortexAvailable, usage, unit_groups, renderVars,
                  costVars, savingsVars, ratioVars >>

\* Session s renders: Streamlit runs the script in a namespace of its own,
\* where start_date and end_date are bound to the session's date inputs.
SessionStart(s, sd, ed) ==
  /\ sessions[s].pc \in {"input", "rejected", "done"}
  /\ SessionStep(s, [ IdleSession EXCEPT !.pc = "gate",
                        !.widget_start = sd, !.widget_end = ed,
                        !.start_date = sd, !.end_date = ed ])

SessionGate(s) ==
  /\ sessions[s].pc = "gate"
  /\ SessionStep(s,
       IF DateRangeAccepted("admin_01", sessions[s].start_date, sessions[s].end_date, 2)
         THEN [ sessions[s] EXCEPT !.pc = "ready" ]
         ELSE [ sessions[s] EXCEPT !.pc = "rejected", !.errorShown = TRUE ])

\* session.sql(...).to_pandas(): the session's script blocks on its query
SessionIssue(s) ==
  /\ sessions[s].pc = "ready"
  /\ SessionStep(s, [ sessions[s] EXCEPT !.pc = "wait" ])

\* The engine answers from the history, over the window of the script's own
\* start_date and end_date; the script post-processes the answer.  The
\* history holds no AI usage: ai_current is 0 whether the AI query is
\* answered (COALESCE(SUM, 0)) or raises.
SessionReturn(s) ==
  /\ sessions[s].pc = "wait"
  /\ LET me == sessions[s]
         q == Script("admin_01")[me.qi]
         w == QueryWindow("admin_01", q, me.start_date, me.end_date)
         last == me.qi = Len(Script("admin_01"))
         on == [ me EXCEPT !.pc = IF last THEN "done" ELSE "ready", !.qi = me.qi + 1 ]
     IN  SessionStep(s,
           CASE q = "total_cost" ->
                  [ on EXCEPT !.cost_summary = TotalCostQuery(source, w) ]
             [] q = "ai_cost" ->
                  [ on EXCEPT !.current_total = CurrentTotal(me.cost_summary, 0) ]
             [] q = "daily_cost" ->
                  [ on EXCEPT !.daily_costs = DailyCostQuery(source, w, 1) ])

\* --------------------------- the admin app's tabs and the standalone pages
\* tab 1 and pages/01 (Cost Overview), tab 7 and pages/07 (Cost Forecasting)
OverviewScripts == {"admin_app", "admin_01"}
ForecastScripts == {"admin_app", "admin_07"}

\* usage before the first selectable date: at most one query a day
PastStamps == { LaterThatDay(d) : d \in (1 - MaxPastDays)..0 }
TabStamps == Stamps \cup PastStamps

\* the histories: any usage on the selectable dates, after none or
\* MaxPastDays earlier days of usage
TabSources ==
  { [ t \in TabStamps |-> IF t \in Stamps THEN src[t] ELSE past ] :
      src \in Sources, past \in {0, MaxCredit} }

\* QUERY_HISTORY holds a row for every attributed query, or for all but one
QueryHistories == { TabStamps } \cup { TabStamps \ {t} : t \in Stamps }

\* how the query joins QUERY_ATTRIBUTION_HISTORY qa to QUERY_HISTORY qh
JoinKind(p, q) ==
  CASE p = "admin_app" /\ q \in {"total_cost", "daily_cost", "forecast"} -> "LEFT"
    [] p = "admin_01" /\ q \in {"total_cost", "daily_cost"} -> "INNER"
    [] p = "admin_07" /\ q = "forecast" -> "LEFT"

\* the attributed queries in window w that the join keeps: an INNER JOIN drops
\* those without a QUERY_HISTORY row, a LEFT JOIN keeps them (with COALESCEd
\* cloud services)
JoinedRows(p, q, src, hist, w) ==
  IF JoinKind(p, q) = "INNER" THEN RowsIn(src, w) \cap hist ELSE RowsIn(src, w)

\* GROUP BY DATE_TRUNC('day', qa.START_TIME)::DATE ... ORDER BY 1
RECURSIVE GroupByDay(_, _)
GroupByDay(src, rows) ==
  IF rows = {} THEN << >>
  ELSE LET d == DayOf(CHOOSE t \in rows : \A u \in rows : t <= u)
           ofDay == { t \in rows : DayOf(t) = d }
       IN  << [usage_date |-> d, credits |-> SumCredits(src, ofDay)] >>
           \o GroupByDay(src, rows \ ofDay)

\* total_cost_query of script p: one row; SUM over no rows is NULL
TotalCostQueryOf(p, src, hist, w) ==
  LET rows == JoinedRows(p, "total_cost", src, hist, w)
  IN  IF rows = {}
        THEN << [CURRENT_COMPUTE |-> NaN, CURRENT_CLOUD_SERVICES |-> NaN] >>
        ELSE << [CURRENT_COMPUTE |-> SumCredits(src, rows),
                 CURRENT_CLOUD_SERVICES |-> 0] >>

\* daily_cost_query of script p
DailyCostQueryOf(p, src, hist, w) ==
  LET days == GroupByDay(src, JoinedRows(p, "daily_cost", src, hist, w))
  IN  [ i \in 1..Len(days) |->
          [usage_date |-> days[i].usage_date, compute_credits |-> days[i].credits] ]

\* forecast_query of script p: the daily credits over its window
ForecastQuery(p, src, hist, w) ==
  LET days == GroupByDay(src, JoinedRows(p, "forecast", src, hist, w))
  IN  [ i \in 1..Len(days) |->
          [usage_date |-> days[i].usage_date, daily_credits |-> days[i].credits] ]

\* an average is kept as a fraction; none is shown as NoRatio
NoRatio == [num |-> NoValue, den |-> 1]

RECURSIVE SumDailyCredits(_)
SumDailyCredits(df) ==
  IF df = << >> THEN 0 ELSE Head(df).daily_credits + SumDailyCredits(Tail(df))

\* df.tail(n)
TailRows(df, n) ==
  IF Len(df) <= n THEN df ELSE SubSeq(df, Len(df) - n + 1, Len(df))

\* tab 7: `if not forecast_data.empty and len(forecast_data) > 7:`
\* recent_avg = forecast_data.tail(7)['DAILY_CREDITS'].mean();
\* projected_monthly = recent_avg * 30
TabForecastMetrics(df) ==
  IF df # << >> /\ Len(df) > ForecastMinRows
    THEN LET recent == TailRows(df, RecentRows)
         IN  [ recent_avg |-> [num |-> SumDailyCredits(recent), den |-> Len(recent)],
               projected_monthly |-> [num |-> SumDailyCredits(recent) * ProjectionDays,
                                      den |-> Len(recent)] ]
    ELSE [ projected_monthly |-> NoRatio ]

\* pages/07: `if not forecast_data.empty:` total_credits, period_days,
\* avg_daily_credits = total_credits / period_days,
\* projected_monthly = avg_daily_credits * 30
PageForecastMetrics(df) ==
  IF df # << >>
    THEN LET total_credits == SumDailyCredits(df)
             period_days == Len(df)
         IN  [ total_credits |-> total_credits, period_days |-> period_days,
               avg_daily_credits |-> [num |-> total_credits, den |-> period_days],
               projected_monthly |-> [num |-> total_credits * ProjectionDays,
                                      den |-> period_days] ]
    ELSE [ projected_monthly |-> NoRatio ]

ForecastMetrics(p, df) ==
  IF p = "admin_app" THEN TabForecastMetrics(df)
  ELSE PageForecastMetrics(df)

\* ------------------------------------------ cost forecasting (tab 7, page 07)
\* the daily credits a day of a forecast result may hold
DailyCreditLevels == {0, 20, 21}

\* The results of forecast_query: one row per day with a query, ordered by day.
ForecastFrames ==
  UNION { [ 1..n -> [ usage_date : {0}, daily_credits : DailyCreditLevels ] ] :
            n \in 0..MaxForecastDays }

\* pages/07: the traces of fig_forecast; the 30-day projection is the third
PageForecastTraces(df) ==
  LET period_days == Len(df)
  IN  {"daily_credits", "period_average"}
      \cup (IF period_days >= ProjectionMinDays /\ period_days >= PolyfitMinPoints
              THEN {"projection"} ELSE {})

\* tab 7: the traces of fig_forecast
TabForecastTraces(df) ==
  {"daily_credits", "seven_day_avg", "thirty_day_avg"}
  \cup (IF Len(df) >= TabProjectionMinRows THEN {"projection"} ELSE {})

\* the cut-offs of the indicator taken inclusively
TrendIndicatorInclusive(trend) ==
  IF trend.num >= TrendPct * trend.den THEN "Increasing"
  ELSE IF trend.num <= (0 - TrendPct) * trend.den THEN "Decreasing"
  ELSE "Stable"

\* "Increasing" if trend > 5 else "Decreasing" if trend < -5 else "Stable",
\* for a trend num / den with den > 0
TrendIndicator(trend) ==
  IF trend.num > TrendPct * trend.den THEN "Increasing"
  ELSE IF trend.num < (0 - TrendPct) * trend.den THEN "Decreasing"
  ELSE "Stable"

\* pages/07, `if period_days >= 7:`.  first_half and second_half are the
\* means of the first and of the last period_days // 2 rows; both have the
\* same number of rows, so that (second - first) / first is the quotient of
\* the sums.  trend is kept as the fraction num / den, in per cent.
TrendAnalysis(df) ==
  LET period_days == Len(df)
  IN  IF period_days >= TrendMinDays
        THEN LET half == period_days \div 2
                 first == SumDailyCredits(HeadRows(df, half))
                 second == SumDailyCredits(TailRows(df, half))
                 trend == IF first > 0
                            THEN [num |-> (second - first) * 100, den |-> first]
                            ELSE [num |-> 0, den |-> 1]
             IN  << [ first_half |-> [num |-> first, den |-> half],
                      second_half |-> [num |-> second, den |-> half],
                      trend |-> trend,
                      trend_indicator |-> TrendIndicator(trend) ] >>
        ELSE << >>

\* what script p draws from forecast_data
ForecastView(p, fd) ==
  IF p = "admin_app"
    THEN IF fd # << >> /\ Len(fd) > ForecastMinRows
           THEN [ metrics |-> << TabForecastMetrics(fd) >>,
                  traces |-> TabForecastTraces(fd), trend |-> << >> ]
           ELSE NoForecastView
    ELSE IF fd # << >>
           THEN [ metrics |-> << PageForecastMetrics(fd) >>,
                  traces |-> PageForecastTraces(fd), trend |-> TrendAnalysis(fd) ]
           ELSE NoForecastView

\* forecast_data returns and the script draws Cost Forecasting from it
ReturnForecast(fd) ==
  /\ Returns("forecast")
  /\ forecast_data' = fd
  /\ forecast_view' = ForecastView(page, fd)
  /\ Continue(1)
  /\ UNCHANGED << warned, costVars, savingsVars, frame, threshold, high_cost, listed,
                  efficiency_summary, rates >>

NoOverview ==
  [ shown |-> FALSE, cost_summary |-> << >>, current_total |-> NoValue,
    daily_costs |-> << >> ]
NoForecast ==
  [ shown |-> FALSE, forecast_data |-> << >>,
    metrics |-> [ projected_monthly |-> NoRatio ] ]

\* nothing rendered yet for the selected dates
NoFigures ==
  [ overview |-> [ p \in OverviewScripts |-> NoOverview ],
    forecast |-> [ p \in ForecastScripts |-> NoForecast ] ]

TabsFrame ==
  UNCHANGED << source, sessions, query_history, query_usage, cortexAvailable, usage,
               unit_groups, page, pc, d1len, qi, issued, outstanding, failedQuery,
               errorShown, warned, costVars, savingsVars, ratioVars >>

\* the date inputs are set; every script renders again
SelectDates(s, e) ==
  /\ << s, e >> # << start_date, end_date >>
  /\ start_date' = s /\ end_date' = e
  /\ figures' = NoFigures
  /\ TabsFrame

\* Script p (the app's tab 1 or pages/01) renders the Cost Overview for the
\* selected dates.  The history holds no AI usage: ai_current is 0.
ShowCostOverview(p) ==
  /\ p \in OverviewScripts /\ ~figures.overview[p].shown
  /\ DateRangeAccepted(p, start_date, end_date, 2)
  /\ LET cs == TotalCostQueryOf(p, source, query_history,
                                QueryWindow(p, "total_cost", start_date, end_date))
         dc == DailyCostQueryOf(p, source, query_history,
                                QueryWindow(p, "daily_cost", start_date, end_date))
     IN  figures' = [ figures EXCEPT !.overview[p] =
                        [ shown |-> TRUE, cost_summary |-> cs,
                          current_total |-> CurrentTotal(cs, 0), daily_costs |-> dc ] ]
  /\ UNCHANGED << start_date, end_date >>
  /\ TabsFrame

\* Script p (the app's tab 7 or pages/07) renders the Cost Forecasting for
\* the selected dates.
ShowForecast(p) ==
  /\ p \in ForecastScripts /\ ~figures.forecast[p].shown
  /\ DateRangeAccepted(p, start_date, end_date, 2)
  /\ LET fd == ForecastQuery(p, source, query_history,
                             QueryWindow(p, "forecast", start_date, end_date))
     IN  figures' = [ figures EXCEPT !.forecast[p] =
                        [ shown |-> TRUE, forecast_data |-> fd,
                          metrics |-> ForecastMetrics(p, fd) ] ]
  /\ UNCHANGED << start_date, end_date >>
  /\ TabsFrame

\* ------------------------------------------------------------ specifications
\* the frames a sequence of renders of the warehouse page goes through
RerenderUnitGroups == UNION { [1..n -> UnitGroups] : n \in 0..2 } \cup { Decile }

\* renders of the warehouse page one after another, the first over Decile
InitRerender ==
  /\ cortexAvailable = TRUE
  /\ usage = << >>
  /\ unit_groups = Decile
  /\ InitRender
  /\ query_usage = NoQueryUsage
  /\ source = [ t \in Stamps |-> 0 ]
  /\ sessions = [ s \in Sessions |-> IdleSession ]
  /\ query_history = Stamps /\ figures = NoFigures

NextRerender ==
  \/ \E s \in Dates, e \in Dates : StartRender("admin_02", s, e, 2)
  \/ Rerun
  \/ \E groups \in RerenderUnitGroups : RerunOnNewUsage(groups)
  \/ DateGate
  \/ IssueQuery
  \/ Finish
  \/ ReturnWarehouseAnalysis
  \/ FailQuery

\* every script over every pair of date inputs, each query answered without
\* rows (the windows of the queries do not depend on the answers)
InitDates ==
  /\ cortexAvailable = TRUE
  /\ usage = << >>
  /\ unit_groups = << >>
  /\ InitRender
  /\ query_usage = NoQueryUsage
  /\ source = [ t \in Stamps |-> 0 ]
  /\ sessions = [ s \in Sessions |-> IdleSession ]
  /\ query_history = Stamps /\ figures = NoFigures

NextDates ==
  \/ \E p \in Pages, s \in Dates, e \in Dates, n \in 1..2 : StartRender(p, s, e, n)
  \/ Rerun
  \/ DateGate
  \/ IssueQuery
  \/ Finish
  \/ ReturnTotalCost(<< >>)
  \/ ReturnAiCost(<< >>)
  \/ ReturnDailyCost(TRUE)
  \/ \E empty \in BOOLEAN : ReturnRows(empty)
  \/ ReturnWarehouseAnalysis
  \/ ReturnUserCost
  \/ ReturnAiSummary
  \/ ReturnEfficiency(CHOOSE r \in EfficiencySummaries : r.TOTAL_QUERIES = 0)
  \/ ReturnForecast(<< >>)
  \/ ReturnWarehouseSavings
  \/ ReturnQuerySavings(<< >>)
  \/ ReturnAiSavings(<< >>)

\* The steps the interpreter takes on its own: a script is straight-line code
\* between its session.sql calls (its loops run over the rows of a frame).
ScriptStep == DateGate \/ IssueQuery \/ Finish

\* The engine answers the outstanding query, with a result or an exception.
\* Which rows come back does not change what the script issues next, except
\* under `if not <result>.empty:`; each query is answered without rows.
QueryAnswered ==
  \/ ReturnTotalCost(<< >>)
  \/ ReturnAiCost(<< >>)
  \/ FailAiCost
  \/ ReturnDailyCost(TRUE)
  \/ \E empty \in BOOLEAN : ReturnRows(empty)
  \/ ReturnWarehouseAnalysis
  \/ ReturnUserCost
  \/ ReturnAiSummary
  \/ ReturnEfficiency(CHOOSE r \in EfficiencySummaries : r.TOTAL_QUERIES = 0)
  \/ ReturnForecast(<< >>)
  \/ ReturnWarehouseSavings
  \/ ReturnQuerySavings(<< >>)
  \/ ReturnAiSavings(<< >>)
  \/ FailQuery

\* every script, on a deployment with or without the Cortex views
InitFair ==
  /\ cortexAvailable \in BOOLEAN
  /\ usage = << >>
  /\ unit_groups = << >>
  /\ InitRender
  /\ query_usage = NoQueryUsage
  /\ source = [ t \in Stamps |-> 0 ]
  /\ sessions = [ s \in Sessions |-> IdleSession ]
  /\ query_history = Stamps /\ figures = NoFigures

NextFair ==
  \/ \E p \in Pages, s \in Dates, e \in Dates, n \in 1..2 : StartRender(p, s, e, n)
  \/ Rerun
  \/ ScriptStep
  \/ QueryAnswered

\* the savings page with the answers of its three queries computed from the
\* period's usage
InitEstimates ==
  /\ cortexAvailable = TRUE
  /\ usage \in RenderUsage
  /\ unit_groups = << >>
  /\ InitRender
  /\ query_usage \in QueryUsages
  /\ source = [ t \in Stamps |-> 0 ]
  /\ sessions = [ s \in Sessions |-> IdleSession ]
  /\ query_history = Stamps /\ figures = NoFigures

NextEstimates ==
  \/ \E s \in Dates, e \in Dates : StartRender("admin_08", s, e, 2)
  \/ Rerun
  \/ DateGate
  \/ IssueQuery
  \/ Finish
  \/ ReturnWarehouseSavings
  \/ ReturnQuerySavings(QuerySavingsFor(query_usage))
  \/ ReturnAiSavings(AiSavingsQuery(query_usage.total_ai_credits))
  \/ FailQuery

\* the Cost Overview page with the answer of its AI query computed from the
\* period's AI usage
InitAiCost ==
  /\ cortexAvailable \in BOOLEAN
  /\ usage = << >>
  /\ unit_groups = << >>
  /\ InitRender
  /\ query_usage \in QueryUsages
  /\ source = [ t \in Stamps |-> 0 ]
  /\ sessions = [ s \in Sessions |-> IdleSession ]
  /\ query_history = Stamps /\ figures = NoFigures

NextAiCost ==
  \/ \E s \in Dates, e \in Dates : StartRender("admin_01", s, e, 2)
  \/ Rerun
  \/ DateGate
  \/ IssueQuery
  \/ Finish
  \/ \E cs \in CostSummaries : ReturnTotalCost(cs)
  \/ \E r \in { << >>, AiCostQuery(query_usage.total_ai_credits) } : ReturnAiCost(r)
  \/ FailAiCost
  \/ \E empty \in BOOLEAN : ReturnDailyCost(empty)
  \/ FailQuery

\* the Query Efficiency page over every result of its rollup
InitEfficiency ==
  /\ cortexAvailable = TRUE
  /\ usage = << >>
  /\ unit_groups = << >>
  /\ InitRender
  /\ query_usage = NoQueryUsage
  /\ source = [ t \in Stamps |-> 0 ]
  /\ sessions = [ s \in Sessions |-> IdleSession ]
  /\ query_history = Stamps /\ figures = NoFigures

NextEfficiency ==
  \/ \E s \in Dates, e \in Dates : StartRender("admin_06", s, e, 2)
  \/ Rerun
  \/ DateGate
  \/ IssueQuery
  \/ Finish
  \/ \E row \in EfficiencySummaries : ReturnEfficiency(row)
  \/ \E empty \in BOOLEAN : ReturnRows(empty)
  \/ FailQuery

\* the Cost Forecasting page over every result of its query
InitForecast ==
  /\ cortexAvailable = TRUE
  /\ usage = << >>
  /\ unit_groups = << >>
  /\ InitRender
  /\ query_usage = NoQueryUsage
  /\ source = [ t \in Stamps |-> 0 ]
  /\ sessions = [ s \in Sessions |-> IdleSession ]
  /\ query_history = Stamps /\ figures = NoFigures

NextForecast ==
  \/ \E s \in Dates, e \in Dates : StartRender("admin_07", s, e, 2)
  \/ Rerun
  \/ DateGate
  \/ IssueQuery
  \/ Finish
  \/ \E fd \in ForecastFrames : ReturnForecast(fd)
  \/ FailQuery

\* the tabs of the app and the pages, over every history
InitTabs ==
  /\ cortexAvailable = TRUE
  /\ usage = << >>
  /\ unit_groups = << >>
  /\ InitRender
  /\ query_usage = NoQueryUsage
  /\ source \in TabSources
  /\ sessions = [ s \in Sessions |-> IdleSession ]
  /\ query_history \in QueryHistories /\ figures = NoFigures

NextTabs ==
  \/ \E s \in Dates, e \in Dates : SelectDates(s, e)
  \/ \E p \in OverviewScripts : ShowCostOverview(p)
  \/ \E p \in ForecastScripts : ShowForecast(p)

\* two sessions on the Cost Overview page, over every history
InitSessions ==
  /\ cortexAvailable = TRUE
  /\ usage = << >>
  /\ unit_groups = << >>
  /\ InitRender
  /\ query_usage = NoQueryUsage
  /\ source \in Sources
  /\ sessions = [ s \in Sessions |-> IdleSession ]
  /\ query_history = Stamps /\ figures = NoFigures

NextSessions ==
  \/ \E s \in Sessions, sd \in Dates, ed \in Dates : SessionStart(s, sd, ed)
  \/ \E s \in Sessions : SessionGate(s)
  \/ \E s \in Sessions : SessionIssue(s)
  \/ \E s \in Sessions : SessionReturn(s)

CompanionGroups ==
  { [ total_credits |-> 1500, total_queries |-> 1,
      avg_execution_ms |-> LongExecutionSeconds * 1000 + 1, unique_users |-> 1 ],
    [ total_credits |-> 500, total_queries |-> 150,
      avg_execution_ms |-> LongExecutionSeconds * 1000, unique_users |-> 2 ] }

\* usage for the savings rules: any one warehouse group, beside up to
\* MaxWarehouses - 1 others
SavingsUsage ==
  { << >> } \cup
  { << g >> \o t : g \in WarehouseGroups,
                   t \in UNION { [1..n -> CompanionGroups] : n \in 0..(MaxWarehouses - 1) } }

\* the groups of the period when every page is rendered
RenderUnitGroups ==
  { << [ total_credits |-> 2, unit_count |-> 3 ], [ total_credits |-> 1, unit_count |-> 1 ] >> }

\* the frames for the ratios: up to MaxRows groups, the ten of Decile, or the
\* long frame
RatioUnitGroups ==
  UNION { [1..n -> UnitGroups] : n \in 0..MaxRows } \cup { Decile, ManyGroups }

Init ==
  /\ cortexAvailable \in BOOLEAN
  /\ usage \in RenderUsage
  /\ unit_groups \in RenderUnitGroups
  /\ InitRender
  /\ query_usage = NoQueryUsage
  /\ source = [ t \in Stamps |-> 0 ]
  /\ sessions = [ s \in Sessions |-> IdleSession ]
  /\ query_history = Stamps /\ figures = NoFigures

\* the warehouse, user and AI pages over every frame
InitRatio ==
  /\ cortexAvailable = TRUE
  /\ usage = << >>
  /\ unit_groups \in RatioUnitGroups
  /\ InitRender
  /\ query_usage = NoQueryUsage
  /\ source = [ t \in Stamps |-> 0 ]
  /\ sessions = [ s \in Sessions |-> IdleSession ]
  /\ query_history = Stamps /\ figures = NoFigures

NextRatio ==
  \/ \E p \in {"admin_02", "admin_03", "admin_05"} : StartRender(p, 1, 1, 2)
  \/ Rerun
  \/ DateGate
  \/ IssueQuery
  \/ Finish
  \/ ReturnWarehouseAnalysis
  \/ ReturnUserCost
  \/ ReturnAiSummary
  \/ FailQuery

\* the savings page over every warehouse group
InitSavings ==
  /\ cortexAvailable \in BOOLEAN
  /\ usage \in SavingsUsage
  /\ unit_groups = << >>
  /\ InitRender
  /\ query_usage = NoQueryUsage
  /\ source = [ t \in Stamps |-> 0 ]
  /\ sessions = [ s \in Sessions |-> IdleSession ]
  /\ query_history = Stamps /\ figures = NoFigures

NextSavings ==
  \/ \E s \in Dates, e \in Dates : StartRender("admin_08", s, e, 2)
  \/ Rerun
  \/ DateGate
  \/ IssueQuery
  \/ Finish
  \/ ReturnWarehouseSavings
  \/ \E r \in QuerySavingsResults : ReturnQuerySavings(r)
  \/ \E r \in AiSavingsResults : ReturnAiSavings(r)
  \/ FailQuery

Next ==
  \/ \E p \in Pages, s \in Dates, e \in Dates, n \in 1..2 : StartRender(p, s, e, n)
  \/ Rerun
  \/ DateGate
  \/ IssueQuery
  \/ Finish
  \/ \E cs \in CostSummaries : ReturnTotalCost(cs)
  \/ \E r \in AiCostResults : ReturnAiCost(r)
  \/ FailAiCost
  \/ \E empty \in BOOLEAN : ReturnDailyCost(empty)
  \/ \E empty \in BOOLEAN : ReturnRows(empty)
  \/ ReturnWarehouseAnalysis
  \/ ReturnUserCost
  \/ ReturnAiSummary
  \/ ReturnEfficiency(CHOOSE r \in EfficiencySummaries : r.TOTAL_QUERIES = 0)
  \/ ReturnForecast(<< >>)
  \/ ReturnWarehouseSavings
  \/ \E r \in QuerySavingsResults : ReturnQuerySavings(r)
  \/ \E r \in AiSavingsResults : ReturnAiSavings(r)
  \/ FailQuery

\* ------------------------------------------------------------------- claims
PastGate == pc \notin {"input", "gate"}
Issued(q) == \E k \in 1..Len(issued) : issued[k] = q

\* C1: in every script, a render whose start date is after its end date shows
\* the rejection and sends no query.  (Fails for user_app, whose gate only
\* counts the endpoints of d1.)
C1_InvalidRangeRejected ==
  (PastGate /\ d1len = 2 /\ start_date > end_date) => (errorShown /\ issued = << >>)

\* C2: a render with start_date = end_date passes the gate: no rejection, the
\* first query is the next step, and a render that reaches its last line has
\* sent every query of the script that is not nested under an empty result.
C2_OneDayRangeAccepted ==
  (PastGate /\ d1len = 2 /\ start_date = end_date) =>
    /\ ~errorShown /\ pc # "rejected"
    /\ issued = << >> => (pc = "ready" /\ qi = 1 /\ Len(Script(page)) >= 1)
    /\ pc = "done" =>
         \A k \in 1..Len(Script(page)) :
           Script(page)[k] \notin NestedQueries => Issued(Script(page)[k])

C2_Witness ==
  /\ page # "user_app" /\ start_date = end_date /\ pc = "done"
  /\ issued = Script(page)

\* C3: when the ai_cost_query raises, ai_current is 0, the total shown is
\* compute + cloud services + 0, and the render goes on: the failure is not
\* what ends it, the daily trend query is sent and the breakdown is drawn.
C3_AiFailureSubstitutesZero ==
  ai_cost_status = "failed" =>
    /\ ai_current = 0
    /\ failedQuery # "ai_cost"
    /\ cost_summary # << >> =>
         /\ metricsShown
         /\ current_total =
              (IF cost_summary[1].CURRENT_COMPUTE = NaN
                  \/ cost_summary[1].CURRENT_CLOUD_SERVICES = NaN
               THEN NaN
               ELSE cost_summary[1].CURRENT_COMPUTE
                    + cost_summary[1].CURRENT_CLOUD_SERVICES + 0)
    /\ pc # "rejected"
    /\ (pc = "ready" /\ ~Issued("daily_cost")) => Script(page)[qi] = "daily_cost"
    /\ pc = "done" => (Issued("daily_cost") /\ breakdownShown = (cost_summary # << >>))

C3_Witness ==
  /\ ai_cost_status = "failed" /\ page = "admin_01" /\ pc = "done"
  /\ breakdownShown /\ current_total = 2 * MaxCredit

\* C4: when the ai_savings_query of the savings rollup raises, 0 stands for
\* the AI category and the total is still computed.  (Fails: the query is
\* issued outside any try, so its exception ends the render.)
C4_AiSavingsFailureSubstitutesZero ==
  failedQuery = "ai_savings" =>
    /\ pc # "aborted"
    /\ ai_savings_amount = 0
    /\ total_potential_savings # NoValue

\* C5: the sidebar warning is on screen exactly when the ai_cost_query of
\* this render raised, and the render goes on after it: the step after the
\* warning is the next query, and a later abort is another query's.
C5_WarningIffAiFailed ==
  /\ warned <=> (ai_cost_status = "failed")
  /\ warned =>
       /\ pc \notin {"rejected", "gate", "input"}
       /\ failedQuery # "ai_cost"
       /\ issued[Len(issued)] = "ai_cost" => (pc = "ready" /\ outstanding = "none")

C5_Witness ==
  /\ warned /\ Issued("daily_cost") /\ pc = "wait" /\ page = "admin_app"

\* the row of warehouse i in wh_savings, if the query returned one
HasRow(i) == \E k \in 1..Len(wh_savings) : wh_savings[k].WAREHOUSE_NAME = i
RowOf(i) == wh_savings[CHOOSE k \in 1..Len(wh_savings) : wh_savings[k].WAREHOUSE_NAME = i]
WarehouseQueryDone == total_wh_savings # NoValue

ChainEstimate(g) ==
  IF g.unique_users < 2 THEN g.total_credits * 30
  ELSE IF g.avg_execution_ms # NaN /\ g.avg_execution_ms > 120 * 1000
         THEN g.total_credits * 20
  ELSE IF g.total_queries > 0 /\ g.total_credits * 100 > g.total_queries * 1000
         THEN g.total_credits * 15
  ELSE 0

\* what warehouse i adds to total_wh_savings
Estimate(i) == IF HasRow(i) THEN RowOf(i).POTENTIAL_SAVINGS ELSE 0

\* C7 as stated: every warehouse group's estimate is the decision chain.
\* (Fails: a group with total_credits <= 1 is filtered out of the result.)
C7_EveryGroupFollowsChain ==
  WarehouseQueryDone =>
    \A i \in 1..Len(usage) : Estimate(i) = ChainEstimate(usage[i])

\* C7 amended: every warehouse group with total_credits > 1 has a row whose
\* estimate is the decision chain, with strict thresholds; a group with
\* total_credits <= 1 has no row.
C7_GroupsAboveOneCreditFollowChain ==
  WarehouseQueryDone =>
    \A i \in 1..Len(usage) :
      IF usage[i].total_credits > 1 * 1000
        THEN HasRow(i) /\ RowOf(i).POTENTIAL_SAVINGS = ChainEstimate(usage[i])
        ELSE ~HasRow(i)

\* a group on all three thresholds (2 users, 120 s, 0.01 credits per query)
C7_Witness ==
  /\ WarehouseQueryDone
  /\ \E i \in 1..Len(usage) :
       /\ usage[i].unique_users = 2
       /\ usage[i].avg_execution_ms = 120 * 1000
       /\ usage[i].total_credits = 1500 /\ usage[i].total_queries = 150
       /\ HasRow(i) /\ RowOf(i).POTENTIAL_SAVINGS = 0

\* ---- ratios (C8) and percentile flagging (C9), checked under SpecRatio
\* ratio times count against the credits scaled to the ratio's unit
ScaledCredits(q, row) == row.total_credits * Pow10(RatioDigits(q) - 3)

\* C8 as stated: a group with unit_count = 0 has ratio 0, and every other
\* group has ratio exactly total_credits / unit_count.
C8_RatioZeroOrQuotient ==
  \A q \in RatioQueries : \A i \in DOMAIN frame[q] :
    LET row == frame[q][i]
    IN  IF row.unit_count = 0 THEN row.ratio = 0
        ELSE row.ratio * row.unit_count = ScaledCredits(q, row)

\* C8 amended: a group with unit_count = 0 has a NULL ratio (never 0, never an
\* error), and every other group has total_credits / unit_count rounded half
\* away from zero to the query's number of decimals (4, or 6 per request).
C8_RatioNullOrRounded ==
  \A q \in RatioQueries : \A i \in DOMAIN frame[q] :
    LET row == frame[q][i]
    IN  IF row.unit_count = 0 THEN row.ratio = NaN
        ELSE /\ (2 * row.ratio - 1) * row.unit_count <= 2 * ScaledCredits(q, row)
             /\ 2 * ScaledCredits(q, row) < (2 * row.ratio + 1) * row.unit_count

C8_Witness ==
  /\ page = "admin_02" /\ pc = "done"
  /\ \E i \in DOMAIN frame["warehouse_analysis"] :
       frame["warehouse_analysis"][i].unit_count = 0
  /\ \E i \in DOMAIN frame["warehouse_analysis"] :
       LET row == frame["warehouse_analysis"][i]
       IN  row.unit_count = 3 /\ row.total_credits = 2 /\ row.ratio = 7

\* the ratios of a frame that are not NaN, by row
Valued(df) == { i \in DOMAIN df : df[i].ratio # NaN }

\* the k-th smallest ratio of a frame, by counting
OrderStatistic(df, k) ==
  CHOOSE v \in { df[i].ratio : i \in Valued(df) } :
    /\ Cardinality({ i \in Valued(df) : df[i].ratio < v }) < k
    /\ k <= Cardinality({ i \in Valued(df) : df[i].ratio <= v })

\* the linearly interpolated pct-th percentile of the ratios, times 100
Interpolated(df, pct) ==
  LET n == Cardinality(Valued(df))
      k == ((n - 1) * pct) \div 100 + 1
      next == IF k < n THEN k + 1 ELSE n
  IN  OrderStatistic(df, k) * 100
        + (((n - 1) * pct) % 100) * (OrderStatistic(df, next) - OrderStatistic(df, k))

\* C9: the flagged set is exactly the rows whose ratio is strictly above the
\* linearly interpolated percentile of the frame's ratios; for the ratios
\* 1..10 at the 90th percentile the cut-off is 9.1 and only 10 is flagged.
C9_StrictlyAboveInterpolatedPercentile ==
  /\ \A q \in RatioQueries :
       frame[q] # << >> =>
         LET df == frame[q]
             flagged == IF Valued(df) = {} THEN {}
                        ELSE { i \in Valued(df) :
                                 df[i].ratio * 100 > Interpolated(df, QuantilePct(q)) }
         IN  /\ Valued(df) # {} => threshold[q] = Interpolated(df, QuantilePct(q))
             /\ Len(high_cost[q]) = Cardinality(flagged)
             /\ { high_cost[q][j] : j \in DOMAIN high_cost[q] } = { df[i] : i \in flagged }
  /\ \A q \in {"user_cost", "ai_summary"} :
       unit_groups = Decile /\ frame[q] # << >> =>
         /\ threshold[q] = 910 * Pow10(RatioDigits(q))
         /\ Len(high_cost[q]) = 1
         /\ high_cost[q][1].ratio = 10 * Pow10(RatioDigits(q))

C9_Witness ==
  /\ unit_groups = Decile /\ page = "admin_03" /\ pc = "done"
  /\ threshold["user_cost"] = 910 * Pow10(UserRatioDigits)
  /\ Len(high_cost["user_cost"]) = 1

\* C11: a query that raises, other than the guarded ai_cost_query, ends the
\* render there: the script is aborted on that query, which was sent once
\* (no retry), and it is the last query the render has sent.
C11_UnguardedFailureIsFatal ==
  /\ failedQuery # "none" =>
        /\ pc = "aborted" /\ outstanding = "none"
        /\ failedQuery # "ai_cost"
        /\ issued # << >> /\ issued[Len(issued)] = failedQuery
  /\ \A j \in 1..Len(issued), k \in 1..Len(issued) : issued[j] = issued[k] => j = k
  /\ pc = "aborted" => failedQuery # "none"

\* the admin app aborted on the unguarded user_cost_query of tab3, after the
\* AI cost query of tab1 had failed and been passed over
C11_Witness ==
  /\ page = "admin_app" /\ pc = "aborted" /\ failedQuery = "user_cost"
  /\ ai_cost_status = "failed" /\ Len(issued) = 5

\* the place of query q in the script of page p
PositionIn(p, q) == CHOOSE k \in 1..Len(Script(p)) : Script(p)[k] = q

\* C12: within a render the queries are sent one after another in program
\* order: a query is outstanding exactly while the script blocks on it, the
\* queries sent so far are in the script's order, and a query is sent only
\* when none is outstanding (the one before has returned, or failed in its
\* try block).
C12_QueriesOneAfterAnother ==
  /\ [](/\ (outstanding # "none") <=> (pc = "wait")
        /\ pc = "wait" => outstanding = issued[Len(issued)]
        /\ \A j \in 1..Len(issued), k \in 1..Len(issued) :
             j < k => PositionIn(page, issued[j]) < PositionIn(page, issued[k]))
  /\ [][ Len(issued') > Len(issued) =>
           /\ outstanding = "none" /\ pc = "ready"
           /\ issued' = Append(issued, Script(page)[qi])
           /\ outstanding' = Script(page)[qi] ]_vars

\* the savings page blocked on its third query, the first two answered
C12_Witness ==
  /\ page = "admin_08" /\ pc = "wait" /\ outstanding = "ai_savings"
  /\ issued = << "warehouse_savings", "query_savings", "ai_savings" >>
  /\ total_wh_savings # NoValue /\ failed_savings # NoValue

\* what the Cost Overview script shows when it runs alone on history src
\* with the date inputs sd and ed
AloneCostSummary(src, sd, ed) ==
  TotalCostQuery(src, QueryWindow("admin_01", "total_cost", sd, ed))
AloneCurrentTotal(src, sd, ed) == CurrentTotal(AloneCostSummary(src, sd, ed), 0)
AloneDailyCosts(src, sd, ed) ==
  DailyCostQuery(src, QueryWindow("admin_01", "daily_cost", sd, ed), 1)

\* C13: under every interleaving of two sessions' renders, what a session
\* has on screen is what its script produces alone from the session's own
\* date inputs: the rejection for start after end, otherwise the totals and
\* the daily trend of its own range.
C13_SessionsDoNotInterfere ==
  \A s \in Sessions :
    LET me == sessions[s]
        sd == me.widget_start
        ed == me.widget_end
    IN  /\ me.pc = "rejected" <=> (me.errorShown /\ sd > ed)
        /\ me.errorShown => me.pc = "rejected"
        /\ me.qi > 1 => me.cost_summary = AloneCostSummary(source, sd, ed)
        /\ me.qi > 2 => me.current_total = AloneCurrentTotal(source, sd, ed)
        /\ me.pc = "done" => me.daily_costs = AloneDailyCosts(source, sd, ed)

\* both sessions done, on different ranges with different totals
C13_Witness ==
  /\ sessions[1].pc = "done" /\ sessions[2].pc = "done"
  /\ sessions[1].widget_start = 1 /\ sessions[1].widget_end = 1
  /\ sessions[2].widget_start = 1 /\ sessions[2].widget_end = 2
  /\ sessions[1].current_total = MaxCredit
  /\ sessions[2].current_total = 2 * MaxCredit

\* C14: in a sequence of renders over changing usage, a cut-off is present
\* in a render only once that render has fetched its frame, and it is the
\* interpolated percentile of that frame, which is the frame of the usage of
\* this render; the flagged rows are those of this frame above this cut-off.
\* Nothing of an earlier render's cut-off or flagged rows is left.
C14_ThresholdOfThisRenderOnly ==
  \A q \in RatioQueries :
    /\ frame[q] # << >> =>
          /\ frame[q] = RatioFrame(q, unit_groups)
          /\ threshold[q] = IF Valued(frame[q]) = {} THEN NaN
                             ELSE Interpolated(frame[q], QuantilePct(q))
          /\ \A i \in DOMAIN frame[q] :
               (\E j \in DOMAIN high_cost[q] : high_cost[q][j] = frame[q][i])
                 <=> (frame[q][i].ratio # NaN /\ frame[q][i].ratio * 100 > threshold[q])
    /\ frame[q] = << >> => (threshold[q] = NoValue /\ high_cost[q] = << >>)

\* a render after the one over Decile (cut-off 7.75, three rows flagged):
\* two warehouses with ratios 0.0010 and 0.0020, cut-off 0.001750
C14_Witness ==
  /\ page = "admin_02" /\ pc = "done"
  /\ unit_groups = << [ total_credits |-> 1, unit_count |-> 1 ],
                      [ total_credits |-> 2, unit_count |-> 1 ] >>
  /\ threshold["warehouse_analysis"] = 1750
  /\ Len(high_cost["warehouse_analysis"]) = 1

\* instants a row of the history can carry: those of the days of the date
\* inputs, of the day before and after them, and of the days around the
\* start of the forecast history
Instants ==
  UNION { { Midnight(d), LaterThatDay(d) } :
            d \in (0..(MaxDate + 1))
                   \cup { start_date - 91, start_date - 90, start_date - 89, start_date - 1 } }

\* the window of the k-th query sent in this render
IssuedWindow(k) == QueryWindow(page, issued[k], start_date, end_date)

\* C15 as stated: no query of a render keeps a row dated before the start
\* date or after the end date of that render.
C15_EveryQueryWithinRange ==
  \A k \in 1..Len(issued) : \A t \in Instants :
    InWindow(t, IssuedWindow(k)) => (start_date <= DayOf(t) /\ DayOf(t) <= end_date)

\* C15 amended: no query keeps a row dated after the end date, and no query
\* but the forecast_query of admin_app keeps a row dated before the start
\* date; that one keeps the rows from 90 days before the start date on.
C15_WithinRangeButForecastHistory ==
  \A k \in 1..Len(issued) : \A t \in Instants :
    LET history == page = "admin_app" /\ issued[k] = "forecast"
    IN  /\ InWindow(t, IssuedWindow(k)) =>
              /\ DayOf(t) <= end_date
              /\ IF history THEN start_date - 90 <= DayOf(t) ELSE start_date <= DayOf(t)
        /\ (history /\ start_date - 90 <= DayOf(t) /\ DayOf(t) < end_date)
              => InWindow(t, IssuedWindow(k))

\* the admin app at its last line, its forecast query sent for one day
C15_Witness ==
  /\ page = "admin_app" /\ Issued("forecast") /\ pc = "done"
  /\ start_date = MaxDate /\ end_date = MaxDate

\* C16: the range is inclusive at both ends: every query of a render keeps
\* the rows of any time of day of every day from the start date to the end
\* date.  (Fails: a query on START_TIME keeps, of the end date, only the
\* rows of its midnight.)
C16_RangeInclusiveOfWholeDays ==
  \A k \in 1..Len(issued) : \A t \in Instants :
    (start_date <= DayOf(t) /\ DayOf(t) <= end_date) => InWindow(t, IssuedWindow(k))

\* the query categories have been estimated in this render
QueryEstimatesDone == failed_savings # NoValue /\ failed_savings # NaN
AiEstimateDone == ai_savings_amount # NoValue /\ ai_savings_amount # NaN

\* C17 as stated: every estimate is its credits times a fraction between 0.1
\* and 0.3 (a warehouse no rule matches has estimate 0), so none exceeds 30%
\* of its credits.  Estimates are in hundredths of the credits' unit.
C17_FractionsWithinTenToThirtyPercent ==
  /\ \A k \in 1..Len(wh_savings) :
       LET row == wh_savings[k]
       IN  /\ row.POTENTIAL_SAVINGS = 0
              \/ \E f \in 10..30 : row.POTENTIAL_SAVINGS = row.TOTAL_CREDITS * f
           /\ row.POTENTIAL_SAVINGS <= row.TOTAL_CREDITS * 30
  /\ QueryEstimatesDone =>
       /\ \E f \in 10..30 : failed_savings = query_usage.failed_credits * f
       /\ \E f \in 10..30 : spillage_savings = query_usage.spilled_credits * f
       /\ \E f \in 10..30 : long_query_savings = query_usage.long_credits * f
       /\ failed_savings <= query_usage.failed_credits * 30
       /\ spillage_savings <= query_usage.spilled_credits * 30
       /\ long_query_savings <= query_usage.long_credits * 30
  /\ AiEstimateDone =>
       /\ \E f \in 10..30 : ai_savings_amount = query_usage.total_ai_credits * f
       /\ ai_savings_amount <= query_usage.total_ai_credits * 30

\* C17 amended: every estimate is its credits times a fixed fraction: 0.3,
\* 0.2 or 0.15 for a warehouse (0 when no rule matches), 0.5 for failed
\* queries, 0.2 for spilling queries, 0.1 for long-running queries, 0.1 for
\* AI usage; none exceeds 50% of its credits.
C17_FractionsUpToFiftyPercent ==
  /\ \A k \in 1..Len(wh_savings) :
       LET row == wh_savings[k]
       IN  /\ \E f \in {0, 15, 20, 30} : row.POTENTIAL_SAVINGS = row.TOTAL_CREDITS * f
           /\ row.POTENTIAL_SAVINGS <= row.TOTAL_CREDITS * 30
  /\ QueryEstimatesDone =>
       /\ failed_savings = query_usage.failed_credits * 50
       /\ spillage_savings = query_usage.spilled_credits * 20
       /\ long_query_savings = query_usage.long_credits * 10
  /\ AiEstimateDone => ai_savings_amount = query_usage.total_ai_credits * 10

\* a period with credits in every category, all of them estimated
C17_Witness ==
  /\ page = "admin_08" /\ pc = "done"
  /\ Len(wh_savings) = 1 /\ wh_savings[1].POTENTIAL_SAVINGS = 1500 * 30
  /\ failed_savings = 1000 * 50 /\ spillage_savings = 1000 * 20
  /\ long_query_savings = 2000 * 10 /\ ai_savings_amount = 3000 * 10

\* C18: no step of a render changes the account usage: not a query, not a
\* rejection, not an abort, not the start of the next render.
C18_RendersOnlyRead ==
  [][ UNCHANGED << usage, unit_groups, query_usage, source, cortexAvailable >> ]_vars

\* the user app at its last line, its ten queries sent, the usage as it was
C18_Witness ==
  /\ page = "user_app" /\ pc = "done" /\ Len(issued) = Len(Script("user_app"))
  /\ usage # << >> /\ unit_groups # << >>

\* a subtotal as the statement counts it: 0 when it is missing
CountedSubtotal(x) == IF x = NaN THEN 0 ELSE x

\* C19: total potential savings is the sum of the five category subtotals,
\* the query-optimization subtotal is failure + spillage + long-running, and
\* a missing subtotal counts as 0.  (Fails: a NULL subtotal of the query
\* categories or of AI usage makes the total NaN.)
C19_TotalIsSumOfSubtotals ==
  total_potential_savings # NoValue =>
    /\ total_potential_savings =
         CountedSubtotal(total_wh_savings) + CountedSubtotal(failed_savings)
         + CountedSubtotal(spillage_savings) + CountedSubtotal(long_query_savings)
         + CountedSubtotal(ai_savings_amount)
    /\ query_total_savings =
         CountedSubtotal(failed_savings) + CountedSubtotal(spillage_savings)
         + CountedSubtotal(long_query_savings)

\* two averages are the same number
SameNumber(a, b) ==
  IF a = NoRatio \/ b = NoRatio THEN a = b ELSE a.num * b.den = b.num * a.den

\* C20: for the same date range and the same data, a tab of the admin app
\* computes the same values as the page of the same name: the totals and the
\* daily trend of the Cost Overview, the forecast data and the projected
\* monthly figure of the Cost Forecasting.  (Fails: INNER JOIN in pages/01,
\* 90 days of history and the 7 most recent days in tab 7.)
C20_TabsComputeWhatPagesCompute ==
  /\ (figures.overview["admin_app"].shown /\ figures.overview["admin_01"].shown) =>
       figures.overview["admin_app"] = figures.overview["admin_01"]
  /\ (figures.forecast["admin_app"].shown /\ figures.forecast["admin_07"].shown) =>
       /\ figures.forecast["admin_app"].forecast_data
            = figures.forecast["admin_07"].forecast_data
       /\ SameNumber(figures.forecast["admin_app"].metrics.projected_monthly,
                     figures.forecast["admin_07"].metrics.projected_monthly)

\* the percentile level the statement gives each context
StatedPercentile(q) ==
  CASE q = "warehouse_analysis" -> 75
    [] q = "user_cost" -> 90
    [] q = "ai_summary" -> 90

\* C21: warehouses are flagged against the 75th percentile, users and AI
\* groups against the 90th; every flagged warehouse is listed, and of the
\* flagged users and AI groups the first 5 at most.
C21_PercentilePerContextAndListLimit ==
  \A q \in RatioQueries :
    frame[q] # << >> =>
      /\ Valued(frame[q]) # {} => threshold[q] = Interpolated(frame[q], StatedPercentile(q))
      /\ IF q = "warehouse_analysis"
           THEN listed[q] = high_cost[q]
           ELSE /\ Len(listed[q]) <= 5
                /\ Len(listed[q]) = IF Len(high_cost[q]) < 5 THEN Len(high_cost[q]) ELSE 5
                /\ \A i \in DOMAIN listed[q] : listed[q][i] = high_cost[q][i]

C21_Witness ==
  /\ page = "admin_03" /\ pc = "done" /\ unit_groups = ManyGroups
  /\ Len(high_cost["user_cost"]) > 5
  /\ Len(listed["user_cost"]) = 5

\* the fraction (in hundredths) of the rule a label names
FractionOfLabel(label) ==
  CASE label = "Low utilization - consider consolidation" -> 30
    [] label = "Long execution times - consider optimization" -> 20
    [] label = "High cost per query - review sizing" -> 15
    [] label = "No issues identified" -> 0

\* C22: in every row of the warehouse savings result the label and the amount
\* come from the same rule: the label is 'No issues identified' exactly when
\* the amount is 0, and a positive amount is the row's credits times the
\* fraction of the rule its label names.
C22_LabelAndAmountFromSameRule ==
  WarehouseQueryDone =>
    \A k \in 1..Len(wh_savings) :
      LET row == wh_savings[k]
      IN  /\ (row.RECOMMENDATION = "No issues identified") <=> (row.POTENTIAL_SAVINGS = 0)
          /\ row.POTENTIAL_SAVINGS > 0 =>
               row.POTENTIAL_SAVINGS = row.TOTAL_CREDITS * FractionOfLabel(row.RECOMMENDATION)

\* a low-utilization warehouse with long executions beside a clean one
C22_Witness ==
  /\ WarehouseQueryDone
  /\ \E k \in 1..Len(wh_savings) :
       /\ wh_savings[k].RECOMMENDATION = "Low utilization - consider consolidation"
       /\ wh_savings[k].POTENTIAL_SAVINGS = wh_savings[k].TOTAL_CREDITS * 30
       /\ usage[wh_savings[k].WAREHOUSE_NAME].avg_execution_ms > 120 * 1000
  /\ \E k \in 1..Len(wh_savings) :
       /\ wh_savings[k].RECOMMENDATION = "No issues identified"
       /\ wh_savings[k].POTENTIAL_SAVINGS = 0

\* the decision-chain estimates of the warehouses in `ws`, summed
RECURSIVE SumOfEstimates(_)
SumOfEstimates(ws) ==
  IF ws = {} THEN 0
  ELSE LET i == CHOOSE x \in ws : TRUE
       IN  ChainEstimate(usage[i]) + SumOfEstimates(ws \ {i})

\* the warehouses with more than 1 credit in the period
AboveOneCredit == { i \in 1..Len(usage) : usage[i].total_credits > 1 * 1000 }

\* C23: a warehouse with total credits of 1 or less adds nothing to warehouse
\* savings whatever rules it matches; warehouse savings is the sum of the
\* estimates of the warehouses above 1 credit, and 0 when there is none.
C23_OnlyWarehousesAboveOneCreditCount ==
  WarehouseQueryDone =>
    /\ \A i \in 1..Len(usage) : i \notin AboveOneCredit => Estimate(i) = 0 /\ ~HasRow(i)
    /\ total_wh_savings = SumOfEstimates(AboveOneCredit)
    /\ AboveOneCredit = {} => total_wh_savings = 0

\* a single-user warehouse of exactly 1 credit beside one of 1.5 credits
C23_Witness ==
  /\ WarehouseQueryDone
  /\ \E i \in 1..Len(usage), j \in 1..Len(usage) :
       /\ usage[i].total_credits = 1000 /\ usage[i].unique_users = 1
       /\ usage[j].total_credits = 1500 /\ usage[j].unique_users = 1
       /\ total_wh_savings = 1500 * 30

RECURSIVE SumEstimatedSavings(_)
SumEstimatedSavings(rows) ==
  IF rows = << >> THEN 0
  ELSE Head(rows).Estimated_Savings + SumEstimatedSavings(Tail(rows))

\* C24: the estimated savings of the five timeline actions sum to the total
\* potential savings: the two warehouse actions carry 0.6 and 0.4 of the
\* warehouse subtotal, the two query actions 0.7 and 0.3 of the query
\* subtotal, the AI action the AI subtotal.  (Amounts in tenths.)
C24_TimelineSumsToTotal ==
  timeline_data # << >> =>
    /\ Len(timeline_data) = 5
    /\ SumEstimatedSavings(timeline_data) = 10 * total_potential_savings
    /\ timeline_data[1].Estimated_Savings = 6 * total_wh_savings
    /\ timeline_data[2].Estimated_Savings = 4 * total_wh_savings
    /\ timeline_data[3].Estimated_Savings = 7 * query_total_savings
    /\ timeline_data[5].Estimated_Savings = 3 * query_total_savings
    /\ timeline_data[4].Estimated_Savings = 10 * ai_savings_amount

C24_Witness ==
  /\ timeline_data # << >>
  /\ total_wh_savings > 0 /\ query_total_savings > 0 /\ ai_savings_amount > 0
  /\ SumEstimatedSavings(timeline_data) = 10 * total_potential_savings

\* a subtotal that is a number greater than 0
Positive(x) == x # NaN /\ x # NoValue /\ x > 0

\* C25: once the savings page has its total, exactly one of two outcomes is
\* rendered: for a total greater than 0 the breakdown, the action plan and
\* the timeline, with a category section exactly for each subtotal greater
\* than 0; otherwise only the success message and the checklist.
C25_ExactlyOneOutcome ==
  IF total_potential_savings = NoValue THEN rendered = {}
  ELSE IF Positive(total_potential_savings)
    THEN /\ {"breakdown", "action_plan", "timeline"} \subseteq rendered
         /\ rendered \cap {"success", "checklist"} = {}
         /\ "warehouse_section" \in rendered <=> Positive(total_wh_savings)
         /\ "query_section" \in rendered <=> Positive(query_total_savings)
         /\ "ai_section" \in rendered <=> Positive(ai_savings_amount)
         /\ timeline_data # << >>
    ELSE rendered = {"success", "checklist"} /\ timeline_data = << >>

\* a plan with the warehouse section alone
C25_Witness ==
  /\ Positive(total_potential_savings) /\ Positive(total_wh_savings)
  /\ query_total_savings = 0 /\ ai_savings_amount = 0
  /\ rendered = {"breakdown", "action_plan", "warehouse_section", "timeline"}

\* a rate that is a number
IsNumber(x) == x # NaN /\ x # Inf /\ x # NoValue

\* C26: the failure, spillage and long-running rates are computed for every
\* result of the rollup, and no rate is computed over a denominator of 0.
\* (Fails: for a period without qualifying queries TOTAL_QUERIES is 0 and the
\* three divisions are by 0; the rates are NaN.)
C26_RatesNeverDivideByZero ==
  efficiency_summary # << >> =>
    /\ efficiency_summary[1].TOTAL_QUERIES # 0
    /\ IsNumber(rates.failure_rate)
    /\ IsNumber(rates.spillage_rate)
    /\ IsNumber(rates.long_query_rate)

\* C27: when the AI query of the cost overview is answered, with no row or
\* with a sum over no AI usage, AI credits are 0 and no warning is shown; AI
\* credits are a number wherever they are used: in the total and the AI
\* metric, and in the cost breakdown.
C27_AnsweredAiQueryNeverNull ==
  /\ ai_cost_status = "ok" =>
       /\ ~warned
       /\ ai_current # NaN /\ ai_current >= 0
       /\ query_usage.total_ai_credits = NaN => ai_current = 0
       /\ ai_current \in {0, query_usage.total_ai_credits}
  /\ metricsShown =>
       /\ ai_current # NaN /\ ai_current # NoValue
       /\ (cost_summary[1].CURRENT_COMPUTE # NaN
           /\ cost_summary[1].CURRENT_CLOUD_SERVICES # NaN) =>
            current_total = cost_summary[1].CURRENT_COMPUTE
                            + cost_summary[1].CURRENT_CLOUD_SERVICES + ai_current
  /\ breakdownShown => ai_current # NaN /\ ai_current # NoValue

C27_Witness ==
  /\ ai_cost_status = "ok" /\ query_usage.total_ai_credits = NaN
  /\ ai_current = 0 /\ ~warned /\ breakdownShown /\ pc = "done"
  /\ current_total = 2 * MaxCredit

\* C28: in user_app, while the range input holds one endpoint only, a render
\* issues no query and shows no tab: the script ends at the gate, outside the
\* block that creates the tabs, and it shows no rejection either.
C28_OneEndpointIssuesNothing ==
  (page = "user_app" /\ d1len = 1 /\ PastGate) =>
    /\ issued = << >> /\ outstanding = "none"
    /\ pc \in {"done", "input"} /\ qi = 1
    /\ ~errorShown

C28_Witness ==
  /\ page = "user_app" /\ d1len = 1 /\ pc = "done"
  /\ issued = << >> /\ ~errorShown

\* C29: on the Cost Forecasting page (pages/07) over a result with rows, the
\* daily average is the total credits over the number of days with data, the
\* 30-day projection is drawn only for 3 days or more, the trend analysis
\* runs only for 7 days or more, its indicator is Increasing for a trend
\* above +5 per cent, Decreasing below -5 per cent and Stable otherwise, and
\* the trend is 0 (Stable) when the first-half average is not positive.
ForecastReturned ==
  /\ page = "admin_07" /\ pc \in {"ready", "done"}
  /\ Issued("forecast") /\ failedQuery = "none"

Rejected == pc = "rejected" /\ errorShown /\ issued = << >> /\ failedQuery = "none"
Completed == pc = "done" /\ ~errorShown /\ failedQuery = "none" /\ outstanding = "none"
Aborted ==
  /\ pc = "aborted" /\ ~errorShown /\ outstanding = "none"
  /\ issued # << >> /\ failedQuery = issued[Len(issued)]

EachQueryAtMostOnce ==
  /\ Len(issued) <= Len(Script(page))
  /\ \A j, k \in 1..Len(issued) : issued[j] = issued[k] => j = k

C30_EveryRenderTerminates ==
  /\ [](EachQueryAtMostOnce
        /\ (pc \in {"rejected", "done", "aborted"} => (Rejected \/ Completed \/ Aborted)))
  /\ ((pc = "gate") ~> (Rejected \/ Completed \/ Aborted))

\* the app ran all its queries, one of them answered with a swallowed exception
C30_Witness ==
  /\ page = "admin_app" /\ Completed /\ warned
  /\ Len(issued) = Len(Script("admin_app"))

Spec == Init /\ [][Next]_vars
SpecSavings == InitSavings /\ [][NextSavings]_vars
SpecRatio == InitRatio /\ [][NextRatio]_vars
SpecSessions == InitSessions /\ [][NextSessions]_vars
SpecRerender == InitRerender /\ [][NextRerender]_vars
SpecDates == InitDates /\ [][NextDates]_vars
SpecEstimates == InitEstimates /\ [][NextEstimates]_vars
SpecTabs == InitTabs /\ [][NextTabs]_vars
SpecEfficiency == InitEfficiency /\ [][NextEfficiency]_vars
SpecAiCost == InitAiCost /\ [][NextAiCost]_vars
SpecForecast == InitForecast /\ [][NextForecast]_vars
\* every script, with the interpreter running on and every query answered
SpecFair ==
  InitFair /\ [][NextFair]_vars /\ WF_vars(ScriptStep) /\ WF_vars(QueryAnswered)
====
